---- MODULE Spec2Model ----
(***************************************************************************)
(* A model of olal's ingestion core: the chunker (olal-ingest/chunker.rs), *)
(* the ingestion pipeline (olal-ingest/ingestor.rs), the processing queue  *)
(* (olal-db/operations/queue.rs) and the batch embedding run               *)
(* (olal-cli/commands/embed.rs).                                           *)
(*                                                                         *)
(* Text is a sequence of one-character strings.  Identifiers produced by   *)
(* new_id() (UUIDs) are natural numbers that are fresh when they are drawn. *)
(***************************************************************************)
EXTENDS Integers, Sequences, FiniteSets, TLC

VARIABLES
    config,         \* ChunkConfig of the chunker under study
    text,           \* the input of chunk_text
    ck,             \* the position and locals of a running chunk_text call
    tr,             \* the input and the result of a chunk_transcript call
    fs,             \* the file system: the bytes of every path, or NoFile
    items,          \* table items
    chunks,         \* table chunks
    embeddings,     \* table embeddings
    next_item_id,   \* new_id() for items
    ingested,       \* per path, the bytes read by its last successful ingest
    queue,          \* table queue
    next_queue_id,  \* new_id() for queue entries
    dq,             \* per caller, the position and locals of its dequeue call
    drain,          \* the position and locals of a process_all call
    emb,            \* the position and locals of an embed_all run
    embed_fails,    \* the chunk texts the embedder rejects every time
    row,            \* a row of table embeddings as the file holds it
    dec,            \* the row a decoder read and what it returned
    sr,             \* the arguments and the result of a search call
    rx,             \* the receiver of a FileWatcher: the batches not yet taken
    wt              \* the last call on the FileWatcher and what it returned

chunkVars == <<config, text, ck, tr>>

storeVars ==
    <<fs, items, chunks, embeddings, next_item_id>>

queueVars == <<queue, next_queue_id, dq>>

embedVars == <<emb, embed_fails>>

searchVars == <<row, dec, sr>>

watchVars == <<rx, wt>>

vars ==
    <<chunkVars, storeVars, ingested, queueVars, drain, embedVars, searchVars,
      watchVars>>

\* ------------------------------------------------------------------ bounds

\* Longest input text of chunk_text, in characters.
MaxLen == 4

\* Largest chunk_size, chunk_overlap and min_chunk_size drawn for a configuration.
MaxChunkSize == 3

MaxMinChunk == 2

\* The Vec that force_split_by_chars fills grows by one window per iteration.
\* A call that returns pushes at most one window per character, so the model
\* stops recording windows beyond that; the loop itself is not cut short.
MaxWindows == MaxLen + 2

\* ------------------------------------------------------------------ text helpers

NONE == "NONE"

Min(a, b) == IF a <= b THEN a ELSE b

\* usize::saturating_sub
SatSub(a, b) == IF a >= b THEN a - b ELSE 0

Alphabet == {"a", " ", ".", "\n"}

IsWhitespace(c) == c \in {" ", "\n"}

RECURSIVE TrimStart(_)
TrimStart(s) ==
    IF s # <<>> /\ IsWhitespace(Head(s)) THEN TrimStart(Tail(s)) ELSE s

RECURSIVE TrimEnd(_)
TrimEnd(s) ==
    IF s # <<>> /\ IsWhitespace(s[Len(s)])
    THEN TrimEnd(SubSeq(s, 1, Len(s) - 1))
    ELSE s

\* str::trim
Trim(s) == TrimEnd(TrimStart(s))

\* The last n characters of s (chars[skip..] with skip = len.saturating_sub(n)).
Tail_n(s, n) == SubSeq(s, SatSub(Len(s), n) + 1, Len(s))

\* Positions i at which s holds "\n\n".
ParaBreaks(s) == {i \in 1..(Len(s) - 1) : s[i] = "\n" /\ s[i + 1] = "\n"}

\* str::split("\n\n"): the pieces between successive, non-overlapping matches
\* taken from the left.
RECURSIVE SplitParagraphs(_)
SplitParagraphs(s) ==
    IF ParaBreaks(s) = {}
    THEN <<s>>
    ELSE LET i == CHOOSE j \in ParaBreaks(s) : \A k \in ParaBreaks(s) : j <= k
         IN  <<SubSeq(s, 1, i - 1)>> \o SplitParagraphs(SubSeq(s, i + 2, Len(s)))

\* The char_indices loop of split_sentences from position i on: `start` is the
\* first character not yet in a sentence, `acc` the sentences found.
RECURSIVE SentenceScan(_, _, _, _)
SentenceScan(s, i, start, acc) ==
    IF i > Len(s)
    THEN [sentences |-> acc, start |-> start]
    ELSE IF s[i] \in {".", "!", "?"}
              /\ (i + 1 > Len(s) \/ s[i + 1] = " " \/ s[i + 1] = "\n")
         THEN LET next == i + 1
                  skipped == IF next <= Len(s) /\ s[next] = " " THEN next + 1 ELSE next
              IN  SentenceScan(s, i + 1, skipped, Append(acc, SubSeq(s, start, i)))
         ELSE SentenceScan(s, i + 1, start, acc)

split_sentences(s) ==
    LET scan == SentenceScan(s, 1, 1, <<>>)
        remaining == Trim(SubSeq(s, scan.start, Len(s)))
        withRest == IF scan.start <= Len(s) /\ remaining # <<>>
                    THEN Append(scan.sentences, remaining)
                    ELSE scan.sentences
    IN  IF withRest = <<>> /\ Trim(s) # <<>> THEN <<Trim(s)>> ELSE withRest

\* ------------------------------------------------------------------ chunker

\* Chunk::new(item_id, chunk_index, content); the owner and the identifier are
\* given by the caller of the chunker.
NewChunk(index, content) == [chunk_index |-> index, content |-> content]

\* A flush that counts the buffer it does not emit.
Flush_counts_skipped(cfg, st) ==
    LET chunk_text == Trim(st.current_chunk)
    IN  IF Len(chunk_text) >= cfg.min_chunk_size \/ st.chunk_index = 0
        THEN [st EXCEPT !.chunks = Append(@, [chunk_index |-> st.chunk_index,
                                              content |-> chunk_text]),
                        !.chunk_index = @ + 1]
        ELSE [st EXCEPT !.chunk_index = @ + 1]

\* A flush that emits every buffer.
Flush_always_emits(cfg, st) ==
    [st EXCEPT !.chunks = Append(@, [chunk_index |-> st.chunk_index,
                                     content |-> Trim(st.current_chunk)]),
               !.chunk_index = @ + 1]

\* "Save current chunk": the buffer is emitted when it reaches min_chunk_size or
\* is the first chunk; otherwise nothing is emitted.
Flush(cfg, st) ==
    LET chunk_text == Trim(st.current_chunk)
    IN  IF Len(chunk_text) >= cfg.min_chunk_size \/ st.chunk_index = 0
        THEN [st EXCEPT !.chunks = Append(@, NewChunk(st.chunk_index, chunk_text)),
                        !.chunk_index = @ + 1]
        ELSE st

\* "Start new chunk with overlap".
SeedOverlap(cfg, st) ==
    IF cfg.chunk_overlap > 0
    THEN [st EXCEPT !.current_chunk = Tail_n(@, cfg.chunk_overlap)]
    ELSE [st EXCEPT !.current_chunk = <<>>]

\* One pass of the loop over the windows of force_split_by_chars.
AddWindow(cfg, st, w) ==
    LET flushed == IF Len(st.current_chunk) > 0
                      /\ Len(st.current_chunk) + Len(w) + 1 > cfg.chunk_size
                   THEN [Flush(cfg, st) EXCEPT !.current_chunk = <<>>]
                   ELSE st
        spaced == IF flushed.current_chunk # <<>>
                  THEN [flushed EXCEPT !.current_chunk = Append(@, " ")]
                  ELSE flushed
    IN  [spaced EXCEPT !.current_chunk = @ \o w]

\* One pass of the loop over the sentences of a long paragraph.
AddSentence(cfg, st, sentence) ==
    LET flushed == IF Len(st.current_chunk) > 0
                      /\ Len(st.current_chunk) + Len(sentence) + 1 > cfg.chunk_size
                   THEN SeedOverlap(cfg, Flush(cfg, st))
                   ELSE st
        spaced == IF flushed.current_chunk # <<>>
                  THEN [flushed EXCEPT !.current_chunk = Append(@, " ")]
                  ELSE flushed
    IN  [spaced EXCEPT !.current_chunk = @ \o sentence]

\* `for chunk_str in self.force_split_by_chars(para)`.  (The state after each
\* pass is bound by a quantifier so that it is computed once.)
RECURSIVE FoldWindows(_, _, _)
FoldWindows(cfg, st, ws) ==
    IF ws = <<>>
    THEN st
    ELSE CHOOSE r \in {FoldWindows(cfg, next, Tail(ws)) :
                           next \in {AddWindow(cfg, st, Head(ws))}} : TRUE

\* `for sentence in sentences`.
RECURSIVE FoldSentences(_, _, _)
FoldSentences(cfg, st, ss) ==
    IF ss = <<>>
    THEN st
    ELSE CHOOSE r \in {FoldSentences(cfg, next, Tail(ss)) :
                           next \in {AddSentence(cfg, st, Head(ss))}} : TRUE

\* The state of a chunk_text call before its first statement.
ChunkerInit ==
    [pc |-> "start", paragraphs |-> <<>>, chunks |-> <<>>, current_chunk |-> <<>>,
     chunk_index |-> 0, fs_chars |-> <<>>, fs_start |-> 0, fs_result |-> <<>>]

\* A chunk_text whose single-chunk return keeps the text as it was given.
ChunkTextBegin_untrimmed(cfg, txt, st) ==
    IF Trim(txt) = <<>>
    THEN [st EXCEPT !.pc = "done"]
    ELSE IF Len(Trim(txt)) <= cfg.chunk_size
    THEN [st EXCEPT !.pc = "done", !.chunks = <<NewChunk(0, txt)>>]
    ELSE [st EXCEPT !.pc = "para", !.paragraphs = SplitParagraphs(Trim(txt))]

\* chunk_text up to the paragraph loop: the empty and the single-chunk returns.
ChunkTextBegin(cfg, txt, st) ==
    LET trimmed == Trim(txt)
    IN  IF trimmed = <<>>
        THEN [st EXCEPT !.pc = "done"]
        ELSE IF Len(trimmed) <= cfg.chunk_size
        THEN [st EXCEPT !.pc = "done", !.chunks = <<NewChunk(0, trimmed)>>]
        ELSE [st EXCEPT !.pc = "para", !.paragraphs = SplitParagraphs(trimmed)]

\* One iteration of `for para in paragraphs`, up to the call of
\* force_split_by_chars when the paragraph needs it.
ParagraphStep(cfg, st) ==
    LET para == Trim(Head(st.paragraphs))
        rest == [st EXCEPT !.paragraphs = Tail(@)]
        current_len == Len(st.current_chunk)
        para_len == Len(para)
        flushed == IF current_len > 0 /\ current_len + para_len + 2 > cfg.chunk_size
                   THEN SeedOverlap(cfg, Flush(cfg, rest))
                   ELSE rest
        joined == IF flushed.current_chunk # <<>>
                  THEN [flushed EXCEPT !.current_chunk = @ \o <<"\n", "\n">>]
                  ELSE flushed
        sentences == split_sentences(para)
    IN  IF para = <<>>
        THEN rest
        ELSE IF para_len > cfg.chunk_size
        THEN IF Len(sentences) <= 1
             THEN [joined EXCEPT !.pc = "fs_test", !.fs_chars = para,
                                 !.fs_start = 0, !.fs_result = <<>>]
             ELSE FoldSentences(cfg, joined, sentences)
        ELSE [joined EXCEPT !.current_chunk = @ \o para]

\* The start of the next window: `start = end.saturating_sub(overlap)`, then
\* the "prevent infinite loop" correction.
ForceSplitNextStart(cfg, end) ==
    LET start == SatSub(end, cfg.chunk_overlap)
    IN  IF start >= end THEN end ELSE start

\* `while start < chars.len()`: on exit force_split_by_chars returns and the
\* caller's loop over the windows runs.
ForceSplitTest(cfg, st) ==
    IF st.fs_start < Len(st.fs_chars)
    THEN [st EXCEPT !.pc = "fs_body"]
    ELSE [FoldWindows(cfg, st, st.fs_result) EXCEPT
            !.pc = "para", !.fs_chars = <<>>, !.fs_start = 0, !.fs_result = <<>>]

\* The body of the while loop of force_split_by_chars.
ForceSplitBody(cfg, st) ==
    LET end == Min(st.fs_start + cfg.chunk_size, Len(st.fs_chars))
        window == SubSeq(st.fs_chars, st.fs_start + 1, end)
    IN  [st EXCEPT !.pc = "fs_test",
                   !.fs_result = IF Len(@) < MaxWindows THEN Append(@, window) ELSE @,
                   !.fs_start = ForceSplitNextStart(cfg, end)]

\* "Don't forget the last chunk", and the return.
ChunkTextEnd(st) ==
    LET chunk_text == Trim(st.current_chunk)
    IN  [st EXCEPT !.pc = "done",
                   !.chunks = IF chunk_text # <<>>
                              THEN Append(@, NewChunk(st.chunk_index, chunk_text))
                              ELSE @]

\* ------------------------------------------------------------------ chunk_text as a whole

\* The statement a chunk_text call executes next.
ChunkStep(cfg, txt, st) ==
    CASE st.pc = "start" -> ChunkTextBegin(cfg, txt, st)
      [] st.pc = "para" /\ st.paragraphs # <<>> -> ParagraphStep(cfg, st)
      [] st.pc = "para" /\ st.paragraphs = <<>> -> ChunkTextEnd(st)
      [] st.pc = "fs_test" -> ForceSplitTest(cfg, st)
      [] st.pc = "fs_body" -> ForceSplitBody(cfg, st)

RECURSIVE ChunkRunFrom(_, _, _)
ChunkRunFrom(cfg, txt, st) ==
    IF st.pc = "done"
    THEN st.chunks
    ELSE CHOOSE r \in {ChunkRunFrom(cfg, txt, next) :
                           next \in {ChunkStep(cfg, txt, st)}} : TRUE

\* The chunks a returning chunk_text call returns.
chunk_text(cfg, txt) == ChunkRunFrom(cfg, txt, ChunkerInit)

\* ------------------------------------------------------------------ chunk_transcript

\* Most segments of a transcript.
MaxSegments == 3

\* The texts of transcript segments.
SegmentTexts == {<<>>, <<" ">>, <<"a">>, <<"a", "a">>}

\* Transcripts: the i-th segment runs from time 2i - 2 to time 2i - 1.
Segment(txt, i) == [text |-> txt, start |-> 2 * i - 2, end |-> 2 * i - 1]

Transcripts ==
    UNION {{[i \in 1..n |-> Segment(txts[i], i)] : txts \in [1..n -> SegmentTexts]} :
              n \in 0..MaxSegments}

\* Option<f64>
NoTime == [some |-> FALSE, at |-> 0]

SomeTime(t) == [some |-> TRUE, at |-> t]

\* Option::unwrap_or
UnwrapOr(opt, default) == IF opt.some THEN opt.at ELSE default

\* Chunk::new(..).with_timestamps(start, end).  `first` and `last` are not
\* fields of Chunk: they record the positions of the first and the last
\* segment pushed to the buffer since it was last cut down to its overlap.
TimedChunk(index, content, start, end, first, last) ==
    [chunk_index |-> index, content |-> content,
     start_time |-> SomeTime(start), end_time |-> SomeTime(end),
     first |-> first, last |-> last]

\* The locals of chunk_transcript before its loop.
TranscriptInit ==
    [chunks |-> <<>>, current_text |-> <<>>, current_start |-> NoTime,
     current_end |-> 0, chunk_index |-> 0, first |-> 0, last |-> 0]

\* "Finalize current chunk": only a buffer of min_chunk_size characters is
\* emitted.
TranscriptFlush(cfg, st) ==
    IF Len(st.current_text) >= cfg.min_chunk_size
    THEN [st EXCEPT
            !.chunks = Append(@, TimedChunk(st.chunk_index, Trim(st.current_text),
                                            UnwrapOr(st.current_start, 0),
                                            st.current_end, st.first, st.last)),
            !.chunk_index = @ + 1]
    ELSE st

\* A pass that leaves current_start alone when it cuts the buffer down.
TranscriptStep_keeps_start(cfg, st, seg, i) ==
    LET exceeds == /\ st.current_text # <<>>
                   /\ Len(st.current_text) + Len(seg.text) + 1 > cfg.chunk_size
        flushed == IF exceeds
                   THEN [TranscriptFlush(cfg, st) EXCEPT
                            !.current_text = Tail_n(@, cfg.chunk_overlap),
                            !.first = 0]
                   ELSE st
        started == IF ~flushed.current_start.some
                   THEN [flushed EXCEPT !.current_start = SomeTime(seg.start)]
                   ELSE flushed
        spaced == IF started.current_text # <<>>
                  THEN [started EXCEPT !.current_text = Append(@, " ")]
                  ELSE started
    IN  [spaced EXCEPT !.current_text = @ \o seg.text,
                       !.current_end = seg.end,
                       !.first = IF @ = 0 THEN i ELSE @,
                       !.last = i]

\* One pass of `for (text, start, end) in segments`, for the i-th segment.
TranscriptStep(cfg, st, seg, i) ==
    LET exceeds == /\ st.current_text # <<>>
                   /\ Len(st.current_text) + Len(seg.text) + 1 > cfg.chunk_size
        flushed == IF exceeds
                   THEN [TranscriptFlush(cfg, st) EXCEPT
                            !.current_text = Tail_n(@, cfg.chunk_overlap),
                            !.current_start = SomeTime(seg.start),
                            !.first = 0]
                   ELSE st
        started == IF ~flushed.current_start.some
                   THEN [flushed EXCEPT !.current_start = SomeTime(seg.start)]
                   ELSE flushed
        spaced == IF started.current_text # <<>>
                  THEN [started EXCEPT !.current_text = Append(@, " ")]
                  ELSE started
    IN  [spaced EXCEPT !.current_text = @ \o seg.text,
                       !.current_end = seg.end,
                       !.first = IF @ = 0 THEN i ELSE @,
                       !.last = i]

RECURSIVE TranscriptFold(_, _, _, _)
TranscriptFold(cfg, st, segments, i) ==
    IF i > Len(segments)
    THEN st
    ELSE CHOOSE r \in {TranscriptFold(cfg, next, segments, i + 1) :
                           next \in {TranscriptStep(cfg, st, segments[i], i)}} : TRUE

\* Chunker::chunk_transcript
chunk_transcript(cfg, segments) ==
    LET st == TranscriptFold(cfg, TranscriptInit, segments, 1)
    IN  IF Trim(st.current_text) # <<>>
        THEN Append(st.chunks,
                    TimedChunk(st.chunk_index, Trim(st.current_text),
                               UnwrapOr(st.current_start, 0), st.current_end,
                               st.first, st.last))
        ELSE st.chunks

\* ------------------------------------------------------------------ files

\* A path is its file stem and its extension.
Paths == {<<"a", "txt">>, <<"b", "txt">>, <<"c", "bin">>}

Extension(p) == p[2]

\* Path::file_name
FileName(p) == p[1] \o "." \o p[2]

\* A byte that is no valid UTF-8.
BadByte == "xFF"

NoFile == [exists |-> FALSE, bytes |-> <<>>]

File(b) == [exists |-> TRUE, bytes |-> b]

DocA == <<"a">>

DocB == <<"a", ".", " ", "a", ".">>

DocBad == <<BadByte>>

\* A character whose UTF-8 encoding takes two bytes.
TwoByteChar == "U+00E9"

\* A text of four bytes in three characters.
DocWide == <<"a", "a", TwoByteChar>>

\* char::len_utf8
LenUtf8(c) == IF c = TwoByteChar THEN 2 ELSE 1

\* str::len: the length in bytes.
RECURSIVE StrLen(_)
StrLen(str) == IF str = <<>> THEN 0 ELSE LenUtf8(Head(str)) + StrLen(Tail(str))

\* str::is_char_boundary
IsCharBoundary(str, n) == \E k \in 0..Len(str) : StrLen(SubSeq(str, 1, k)) = n

Contents == {DocA, DocB, DocBad}

\* The paths whose extension names a supported type, and the other one, which
\* holds the same bytes whenever it exists.
TextPaths == {p \in Paths : Extension(p) = "txt"}

OtherPaths == Paths \ TextPaths

OtherContents == {DocA}

\* ItemType::from_extension, for the extensions of Paths.
from_extension(ext) ==
    IF ext \in {"md", "markdown", "txt", "org"} THEN "note" ELSE NONE

\* hash_file: the SHA-256 of the bytes, taken as free of collisions.
hash_file(b) == <<"sha256">> \o b

\* std::fs::read_to_string
ValidUtf8(b) == \A i \in 1..Len(b) : b[i] # BadByte

\* parsers::parse_file for a text file: the content is the text of the file,
\* the title its file name; bytes that are no UTF-8 are an I/O error.
parse_file(p, b) ==
    IF ValidUtf8(b)
    THEN [ok |-> TRUE, content |-> b, title |-> FileName(p)]
    ELSE [ok |-> FALSE, content |-> <<>>, title |-> NONE]

\* ------------------------------------------------------------------ store

\* Ingestor::with_defaults, with ChunkConfig::default() scaled down from
\* 1000 / 100 / 100 characters.
IngestConfig == [chunk_size |-> 3, chunk_overlap |-> 1, min_chunk_size |-> 1]

\* enrich_item skips content shorter than this (100 bytes, scaled down).
EnrichMinLen == 2

find_item_by_hash(tbl, h) == {it \in tbl : it.content_hash = h}

\* A lookup by path that finds nothing.
find_no_item(tbl, p) == {}

find_item_by_path(tbl, p) == {it \in tbl : it.source_path = p}

get_chunks_by_item(tbl, id) == {c \in tbl : c.item_id = id}

\* DELETE FROM chunks WHERE item_id = ?
delete_chunks_by_item(tbl, id) == {c \in tbl : c.item_id # id}

\* embeddings.chunk_id REFERENCES chunks(id) ON DELETE CASCADE
Cascade(embs, tbl) == {e \in embs : \E c \in tbl : c.id = e.chunk_id}

\* An insert that replaces nothing.
store_embedding_keeps_all(embs, chunk_id, vector) ==
    embs \cup {[chunk_id |-> chunk_id, vector |-> vector]}

\* INSERT OR REPLACE INTO embeddings
store_embedding(embs, chunk_id, vector) ==
    {e \in embs : e.chunk_id # chunk_id} \cup
        {[chunk_id |-> chunk_id, vector |-> vector]}

\* new_id() for n chunks: identifiers that nothing holds.  A UUID is fresh; of
\* the fresh identifiers the model takes the smallest, since nothing depends on
\* the value of a chunk identifier but its equality with another.
RECURSIVE NewIds(_, _)
NewIds(used, n) ==
    IF n = 0
    THEN <<>>
    ELSE LET id == CHOOSE i \in 1..(Cardinality(used) + 1) : i \notin used
         IN  <<id>> \o NewIds(used \cup {id}, n - 1)

\* Chunk::new for each chunk the chunker emits.
MakeChunks(item_id, emitted, ids) ==
    {[id |-> ids[i], item_id |-> item_id,
      chunk_index |-> emitted[i].chunk_index, content |-> emitted[i].content] :
        i \in 1..Len(emitted)}

\* chunks.iter().map(content).join(" ")
RECURSIVE Combined(_)
Combined(emitted) ==
    IF emitted = <<>> THEN <<>>
    ELSE Head(emitted).content
            \o (IF Len(emitted) > 1 THEN <<" ">> ELSE <<>>) \o Combined(Tail(emitted))

\* chunks.iter().map(content).join(" ").len()
CombinedLen(emitted) == StrLen(Combined(emitted))

\* generate_summary truncates content longer than this (4000 bytes, scaled
\* down), suggest_tags content longer than that (3000 bytes, scaled down).
SummaryMaxLen == 4

TagsMaxLen == 3

\* `&content[..n]` for a content longer than n bytes panics unless byte n
\* starts a character.
TruncatePanics(content, n) == StrLen(content) > n /\ ~IsCharBoundary(content, n)

\* enrich_item runs the enricher on this item and content.
Enriches(emitted, ai) == CombinedLen(emitted) >= EnrichMinLen /\ ai # "unavailable"

\* generate_summary is called and panics in its truncation.
SummaryPanics(it, emitted, ai) ==
    /\ Enriches(emitted, ai)
    /\ it.summary = NONE
    /\ TruncatePanics(Combined(emitted), SummaryMaxLen)

\* enrich_item panics: in generate_summary, or later in suggest_tags.
enrich_panics(it, emitted, ai) ==
    \/ SummaryPanics(it, emitted, ai)
    \/ Enriches(emitted, ai) /\ TruncatePanics(Combined(emitted), TagsMaxLen)

\* enrich_item: the item it leaves stored.  With an enricher that answers, an
\* item without summary gets one and the item is tagged; an enricher that
\* fails or is unavailable changes nothing; a panic ends the call where it
\* happens.
enrich_item(it, emitted, ai) ==
    IF ~Enriches(emitted, ai) \/ ai = "fails" \/ SummaryPanics(it, emitted, ai)
    THEN it
    ELSE LET summarized == [it EXCEPT !.summary = IF @ = NONE THEN "summary" ELSE @]
         IN  IF enrich_panics(it, emitted, ai)
             THEN summarized
             ELSE [summarized EXCEPT !.tags = @ \cup {"ai"}]

\* What the store holds, as ingest_file sees and leaves it.
Store ==
    [items |-> items, chunks |-> chunks, embeddings |-> embeddings,
     next_item_id |-> next_item_id]

\* The call did not run.
NoRet ==
    [op |-> "none", path |-> <<>>, res |-> "none", item |-> 0,
     was_update |-> FALSE, chunks |-> {}]

IngestErr(p, db, e) ==
    [db |-> db,
     ret |-> [op |-> "ingest_file", path |-> p, res |-> e, item |-> 0,
              was_update |-> FALSE, chunks |-> {}]]

IngestOk(p, db, id, upd) ==
    [db |-> db,
     ret |-> [op |-> "ingest_file", path |-> p, res |-> "Ok", item |-> id,
              was_update |-> upd, chunks |-> get_chunks_by_item(db.chunks, id)]]

\* Ingestor::ingest_file(p) on the files `files` and the store `db`.  `held`
\* are the chunk identifiers that callers still hold, `fault` names the
\* database write that fails during the call, if any, and `ai` tells whether
\* the enricher answers.  The result is the store the call leaves and
\* the value it returns.
ingest_file(p, files, db, held, fault, ai) ==
    LET f == files[p]
        item_type == from_extension(Extension(p))
        content_hash == hash_file(f.bytes)
        by_hash == find_item_by_hash(db.items, content_hash)
        existing == CHOOSE it \in by_hash : TRUE
        by_path == find_item_by_path(db.items, p)
        was_update == by_path # {}
        old_item == CHOOSE it \in by_path : TRUE
        kept == IF was_update
                THEN delete_chunks_by_item(db.chunks, old_item.id)
                ELSE db.chunks
        deleted == [db EXCEPT !.chunks = kept, !.embeddings = Cascade(@, kept)]
        parsed == parse_file(p, f.bytes)
        item == IF was_update
                THEN [old_item EXCEPT !.title = parsed.title,
                                      !.content_hash = content_hash]
                ELSE [id |-> db.next_item_id, item_type |-> item_type,
                      title |-> parsed.title, source_path |-> p,
                      content_hash |-> content_hash, summary |-> NONE,
                      tags |-> {}]
        saved == IF was_update
                 THEN [deleted EXCEPT !.items = (@ \ {old_item}) \cup {item}]
                 ELSE [deleted EXCEPT !.items = @ \cup {item},
                                      !.next_item_id = @ + 1]
        emitted == chunk_text(IngestConfig, parsed.content)
        ids == NewIds({c.id : c \in db.chunks} \cup held, Len(emitted))
        stored == [saved EXCEPT !.chunks = @ \cup MakeChunks(item.id, emitted, ids)]
        enriched == [stored EXCEPT
                        !.items = (@ \ {item}) \cup {enrich_item(item, emitted, ai)}]
    IN  IF ~f.exists
        THEN IngestErr(p, db, "Io")
        ELSE IF item_type = NONE
        THEN IngestErr(p, db, "UnsupportedFileType")
        ELSE IF by_hash # {}
        THEN IngestOk(p, db, existing.id, FALSE)
        ELSE IF ~parsed.ok
        THEN IngestErr(p, deleted, "Io")
        ELSE IF fault = "item"
        THEN IngestErr(p, deleted, "Database")
        ELSE IF fault = "chunks"
        THEN IngestErr(p, saved, "Database")
        ELSE IF enrich_panics(item, emitted, ai)
        THEN IngestErr(p, enriched, "Panic")
        ELSE IngestOk(p, enriched, item.id, was_update)

Faults == {"none", "item", "chunks"}

Enrichers == {"ok", "fails", "unavailable"}

\* The embedder's answers.
Vectors == {<<1, 0>>, <<0, 1>>}

\* ------------------------------------------------------------------ queue

\* Entries the model lets callers enqueue.
MaxQueueIds == 2

\* Times a caller retries an entry before giving it up.
MaxAttempts == 2

Callers == {"c1", "c2"}

Priorities == {0, 1}

\* The message of the error a failed entry records.
ErrorTexts == {"Io", "Database"}

\* QueueItem::new(path, item_type).with_priority(priority); created_at is the
\* time of the call, which the model counts in enqueue calls.
QueueItemNew(id, p, item_type, priority) ==
    [id |-> id, source_path |-> p, item_type |-> item_type, status |-> "pending",
     priority |-> priority, attempts |-> 0, error |-> NONE, created_at |-> id,
     started_at |-> NONE, completed_at |-> NONE]

\* A lookup that counts pending entries only.
is_queued_pending_only(q, p) ==
    \E r \in q : r.source_path = p /\ r.status = "pending"

is_queued(q, p) ==
    \E r \in q : r.source_path = p /\ r.status \in {"pending", "processing"}

\* Ingestor::queue_file: the queue it leaves and what it returns.
queue_file(p, priority, files, q, id) ==
    IF ~files[p].exists
    THEN [res |-> "Io", queue |-> q]
    ELSE IF is_queued(q, p)
    THEN [res |-> "AlreadyProcessed", queue |-> q]
    ELSE IF from_extension(Extension(p)) = NONE
    THEN [res |-> "UnsupportedFileType", queue |-> q]
    ELSE [res |-> "Ok",
          queue |-> q \cup {QueueItemNew(id, p, from_extension(Extension(p)), priority)}]

\* The same query with ORDER BY created_at ASC only.
SelectOldestPending(q) ==
    {r \in q : /\ r.status = "pending"
               /\ \A o \in q : o.status = "pending" => r.created_at <= o.created_at}

\* SELECT ... WHERE status = 'pending' ORDER BY priority DESC, created_at ASC
\* LIMIT 1: the rows that query can return (none, or the one first in order).
SelectPending(q) ==
    {r \in q : /\ r.status = "pending"
               /\ \A o \in q : o.status = "pending" =>
                      \/ r.priority > o.priority
                      \/ r.priority = o.priority /\ r.created_at <= o.created_at}

\* UPDATE queue SET status = 'processing', started_at = now,
\* attempts = attempts + 1 WHERE id = ?
UpdateProcessing(q, id) ==
    {IF r.id = id
     THEN [r EXCEPT !.status = "processing", !.started_at = "now", !.attempts = @ + 1]
     ELSE r : r \in q}

\* SELECT ... FROM queue WHERE id = ?
get_queue_item(q, id) == {r \in q : r.id = id}

\* Database::dequeue run without interruption: the queue it leaves and the
\* identifier of the entry it returns (0 for None).
dequeue(q) ==
    IF SelectPending(q) = {}
    THEN [queue |-> q, item |-> 0]
    ELSE LET item == CHOOSE r \in SelectPending(q) : TRUE
         IN  [queue |-> UpdateProcessing(q, item.id), item |-> item.id]

mark_completed(q, id) ==
    {IF r.id = id
     THEN [r EXCEPT !.status = "done", !.completed_at = "now"]
     ELSE r : r \in q}

mark_failed(q, id, error) ==
    {IF r.id = id
     THEN [r EXCEPT !.status = "failed", !.error = error, !.completed_at = "now"]
     ELSE r : r \in q}

\* A retry that resets the status only.
retry_status_only(q, id) ==
    {IF r.id = id THEN [r EXCEPT !.status = "pending"] ELSE r : r \in q}

retry(q, id) ==
    {IF r.id = id
     THEN [r EXCEPT !.status = "pending", !.error = NONE, !.started_at = NONE,
                    !.completed_at = NONE]
     ELSE r : r \in q}

clear_completed(q) == {r \in q : r.status # "done"}

clear_failed(q) == {r \in q : r.status # "failed"}

\* Ingestor::process_next on the files, the store and the queue: what it
\* leaves and whether it returns Ok(None), Ok(Some(result)) or Err.
process_next(files, db, held, q, fault, ai) ==
    LET d == dequeue(q)
        path == (CHOOSE r \in q : r.id = d.item).source_path
        r == ingest_file(path, files, db, held, fault, ai)
    IN  IF d.item = 0
        THEN [res |-> "None", db |-> db, queue |-> q, item |-> 0, ingest |-> NoRet]
        ELSE IF r.ret.res = "Ok"
        THEN [res |-> "Some", db |-> r.db, queue |-> mark_completed(d.queue, d.item),
              item |-> d.item, ingest |-> r.ret]
        ELSE IF r.ret.res = "Panic"
        THEN [res |-> "Panic", db |-> r.db, queue |-> d.queue,
              item |-> d.item, ingest |-> r.ret]
        ELSE [res |-> "Err", db |-> r.db,
              queue |-> mark_failed(d.queue, d.item, r.ret.res),
              item |-> d.item, ingest |-> r.ret]

\* ------------------------------------------------------------------ embedding run

\* Largest --batch-size drawn for a run.
MaxBatch == 2

\* The run's error counter is only printed; the model counts up to this bound
\* and then holds.
MaxErrors == 1

\* The texts the chunker emits for the files of the model.
ChunkTexts ==
    {c.content : c \in UNION {{chunk_text(IngestConfig, b)[i] :
                                   i \in 1..Len(chunk_text(IngestConfig, b))} :
                                  b \in {DocA, DocB}}}

\* embedding_stats: (embedded_count, total_count)
embedding_stats(tbl, embs) == <<Cardinality(embs), Cardinality(tbl)>>

Unembedded(tbl, embs) == {c \in tbl : \A e \in embs : e.chunk_id # c.id}

\* ORDER BY c.item_id, c.chunk_index
ChunkBefore(c, d) ==
    \/ c.item_id < d.item_id
    \/ c.item_id = d.item_id /\ c.chunk_index <= d.chunk_index

RECURSIVE SortChunks(_)
SortChunks(S) ==
    IF S = {}
    THEN <<>>
    ELSE LET first == CHOOSE c \in S : \A d \in S : ChunkBefore(c, d)
         IN  <<first>> \o SortChunks(S \ {first})

\* get_unembedded_chunks(limit)
get_unembedded_chunks(tbl, embs, limit) ==
    LET sorted == SortChunks(Unembedded(tbl, embs))
    IN  SubSeq(sorted, 1, Min(limit, Len(sorted)))

\* ------------------------------------------------------------------ embedding storage format

\* Longest vector given to store_embedding.
MaxDimensions == 2

\* Most bytes appended to a stored vector.
MaxPadding == 2

\* An f32 is its bit pattern, as the pair of its low and high 16 bits: 0.0,
\* 1.0 and -1.0.
F32Zero == <<0, 0>>

Floats == {F32Zero, <<0, 16256>>, <<0, 49024>>}

\* f32::to_le_bytes
to_le_bytes(f) == <<f[1] % 256, f[1] \div 256, f[2] % 256, f[2] \div 256>>

\* f32::from_le_bytes
from_le_bytes(b) == <<b[1] + 256 * b[2], b[3] + 256 * b[4]>>

\* vector.iter().flat_map(|f| f.to_le_bytes()).collect()
RECURSIVE Serialize(_)
Serialize(v) ==
    IF v = <<>> THEN <<>> ELSE to_le_bytes(Head(v)) \o Serialize(Tail(v))

\* slice::chunks(4): groups of four bytes, the last one shorter when the
\* length is no multiple of four.
RECURSIVE ByteChunks(_)
ByteChunks(bytes) ==
    IF bytes = <<>>
    THEN <<>>
    ELSE <<SubSeq(bytes, 1, Min(4, Len(bytes)))>>
             \o ByteChunks(SubSeq(bytes, Min(4, Len(bytes)) + 1, Len(bytes)))

\* .take(dimensions as usize): a negative i32 becomes a huge usize.
Take(s, dimensions) ==
    IF dimensions < 0 THEN s ELSE SubSeq(s, 1, Min(dimensions, Len(s)))

\* The row store_embedding writes for the vector v; `given` and `intact`
\* remember the vector and that the bytes are still those written.
EmbeddingRow(v) ==
    [present |-> TRUE, vector |-> Serialize(v), dimensions |-> Len(v),
     given |-> v, intact |-> TRUE]

\* What a decoder returns, or that it panicked.
Decoded(v) == [kind |-> "Some", vector |-> v]

DecodePanic == [kind |-> "Panic", vector |-> <<>>]

\* The decoder of get_embedding: it indexes the four bytes of every group.
get_embedding(r) ==
    LET groups == Take(ByteChunks(r.vector), r.dimensions)
    IN  IF \E i \in 1..Len(groups) : Len(groups[i]) < 4
        THEN DecodePanic
        ELSE Decoded([i \in 1..Len(groups) |-> from_le_bytes(groups[i])])

\* The decoder of vector_search and of get_all_embeddings: a group that is
\* not four bytes long gives 0.0.
decode_vector(r) ==
    LET groups == Take(ByteChunks(r.vector), r.dimensions)
    IN  Decoded([i \in 1..Len(groups) |->
                    IF Len(groups[i]) = 4 THEN from_le_bytes(groups[i]) ELSE F32Zero])

\* ------------------------------------------------------------------ vector search

\* A similarity, a weight or a score is an f32 between -1 and 1; the model
\* counts it in tenths, and a product of two of them in hundredths.

\* The vectors of the search model: components are whole numbers.
SearchVectors == {<<1, 0>>, <<0, 1>>, <<-1, 0>>, <<1>>}

QueryVectors == SearchVectors \cup {<<0, 0>>}

\* f32::sqrt, on the squares the vectors of the model give.
Sqrt(n) == CHOOSE r \in 0..n : r * r = n

RECURSIVE Dot(_, _)
Dot(a, b) == IF a = <<>> THEN 0 ELSE Head(a) * Head(b) + Dot(Tail(a), Tail(b))

\* cosine_similarity(a, b), in tenths.
cosine_similarity(a, b) ==
    LET denominator == Sqrt(Dot(a, a)) * Sqrt(Dot(b, b))
    IN  IF Len(a) # Len(b) \/ a = <<>>
        THEN 0
        ELSE IF denominator = 0
        THEN 0
        ELSE (10 * Dot(a, b)) \div denominator

\* Option<f32>
NoMinimum == [some |-> FALSE, at |-> 0]

Minimum(x) == [some |-> TRUE, at |-> x]

SimilarityResult(chunk_id, similarity) ==
    [chunk_id |-> chunk_id, similarity |-> similarity]

\* The rows of `embeddings e JOIN chunks c JOIN items i` in an order the
\* database may return them in.
JoinedRows(embs, tbl, its) ==
    {e \in embs : \E c \in tbl : c.id = e.chunk_id /\ \E i \in its : i.id = c.item_id}

RowOrders(S) ==
    {o \in [1..Cardinality(S) -> S] : \A i, j \in 1..Cardinality(S) : o[i] = o[j] => i = j}

\* The loop over the rows: the results at or above the minimum, in row order.
RECURSIVE Candidates(_, _, _)
Candidates(rows, query_vector, min_sim) ==
    IF rows = <<>>
    THEN <<>>
    ELSE LET similarity == cosine_similarity(query_vector, Head(rows).vector)
             rest == Candidates(Tail(rows), query_vector, min_sim)
         IN  IF similarity >= min_sim
             THEN <<SimilarityResult(Head(rows).chunk_id, similarity)>> \o rest
             ELSE rest

\* One insertion of the stable sort by descending similarity.
InsertDescending(sorted, r) ==
    LET before == {i \in 1..Len(sorted) : sorted[i].similarity >= r.similarity}
        k == Cardinality(before)
    IN  SubSeq(sorted, 1, k) \o <<r>> \o SubSeq(sorted, k + 1, Len(sorted))

\* results.sort_by(|a, b| b.similarity.partial_cmp(&a.similarity).unwrap())
RECURSIVE SortDescending(_, _)
SortDescending(sorted, results) ==
    IF results = <<>>
    THEN sorted
    ELSE SortDescending(InsertDescending(sorted, Head(results)), Tail(results))

\* A truncate that cuts nothing.
Truncate_nothing(results, limit) == results

\* results.truncate(limit)
Truncate(results, limit) == SubSeq(results, 1, Min(limit, Len(results)))

\* Database::vector_search over the rows in the order the query returned them.
vector_search(rows, query_vector, limit, min_similarity) ==
    Truncate(SortDescending(<<>>, Candidates(rows, query_vector,
                                            UnwrapOr(min_similarity, 0))),
             limit)

\* ------------------------------------------------------------------ hybrid search

\* A value as SQLite compares it: with its storage class.
SqlText(v) == [class |-> "text", value |-> v]

SqlInteger(v) == [class |-> "integer", value |-> v]

\* `=` between a TEXT column that holds a UUID and an INTEGER: the text is no
\* number, so the classes differ and the values are not equal.
SqlEquals(a, b) == a.class = b.class /\ a.value = b.value

\* The row of chunks_fts the insert trigger writes for a chunk: the model
\* numbers the rows of table chunks by the number that stands for the
\* chunk's identifier.
FtsRow(c) == [rowid |-> c.id, content |-> c.content]

\* The number of tokens of the content equal to the term; the contents of the
\* model separate their letters by punctuation or white space.
Occurrences(content, term) ==
    Cardinality({i \in 1..Len(content) : content[i] = term})

\* chunks_fts MATCH ?1, for a query of one term.
FtsMatch(tbl, term) ==
    {FtsRow(c) : c \in {d \in tbl : Occurrences(d.content, term) > 0}}

\* bm25(chunks_fts): negative, and lower for the better match.
bm25(fr, term) == 0 - Occurrences(fr.content, term)

\* 1.0 / (1.0 + (-bm25_score as f32).exp()), rounded to tenths: 0.5 for a
\* score of 0, 0.27 for -1, 0.12 for -2, less than 0.05 below.
normalized_score(score) ==
    CASE score = 0 -> 5
      [] score = -1 -> 3
      [] score = -2 -> 1
      [] OTHER -> 0

\* FROM chunks_fts JOIN chunks c ON c.id = chunks_fts.rowid JOIN items i
\* WHERE chunks_fts MATCH ?1
FtsJoined(tbl, its, term) ==
    UNION {{[chunk_id |-> c.id, bm25 |-> bm25(fr, term)] :
               c \in {d \in tbl : /\ SqlEquals(SqlText(d.id), SqlInteger(fr.rowid))
                                  /\ \E i \in its : i.id = d.item_id}} :
           fr \in FtsMatch(tbl, term)}

\* ORDER BY bm25(chunks_fts) LIMIT ?2: the orders the query may return the
\* joined rows in.
FtsOrders(S, limit) ==
    {SubSeq(o, 1, Min(limit, Len(o))) :
        o \in {p \in RowOrders(S) :
                 \A i, j \in 1..Cardinality(S) : i < j => p[i].bm25 <= p[j].bm25}}

\* The keys of the HashMap `combined`.
CombinedIds(vector_results, fts_results) ==
    {vector_results[i].chunk_id : i \in 1..Len(vector_results)}
        \cup {fts_results[i].chunk_id : i \in 1..Len(fts_results)}

\* The fused score of a key, in hundredths: the vector result's similarity
\* times vector_weight, plus the normalized lexical score times
\* 1.0 - vector_weight.
CombinedScore(id, vector_results, fts_results, vector_weight) ==
    LET vs == {i \in 1..Len(vector_results) : vector_results[i].chunk_id = id}
        fts == {i \in 1..Len(fts_results) : fts_results[i].chunk_id = id}
        vector_part == IF vs = {} THEN 0
                       ELSE vector_results[CHOOSE i \in vs : TRUE].similarity
                                * vector_weight
        fts_part == IF fts = {} THEN 0
                    ELSE normalized_score(fts_results[CHOOSE i \in fts : TRUE].bm25)
                             * (10 - vector_weight)
    IN  vector_part + fts_part

\* Database::hybrid_search: `rows` and `fts_results` are the rows of the two
\* queries in the order the database returned them, `values` is the order in
\* which the HashMap gives its keys.
hybrid_search(rows, fts_results, values, query_vector, limit, vector_weight) ==
    LET vector_results == vector_search(rows, query_vector, limit * 2, Minimum(1))
        combined == [i \in 1..Len(values) |->
                        SimilarityResult(values[i],
                            CombinedScore(values[i], vector_results, fts_results,
                                          vector_weight))]
    IN  Truncate(SortDescending(<<>>, combined), limit)

\* ------------------------------------------------------------------ initial values

\* No chunk_transcript call has been made.
TranscriptIdle == [pc |-> "idle", config |-> IngestConfig, segments |-> <<>>, chunks |-> <<>>]

\* No chunk_text call is running.
ChunkIdle ==
    /\ config = IngestConfig
    /\ text = <<>>
    /\ ck = [ChunkerInit EXCEPT !.pc = "idle"]
    /\ tr = TranscriptIdle

\* No successful ingest of the path yet.
NeverIngested == [exists |-> FALSE, bytes |-> <<>>, item |-> 0, fresh |-> FALSE]

\* Database::open on a new file: every table is empty.
StoreInit ==
    /\ items = {}
    /\ chunks = {}
    /\ embeddings = {}
    /\ next_item_id = 1
    /\ ingested = [p \in Paths |-> NeverIngested]

IdleCaller == [pc |-> "idle", item |-> 0, ret |-> 0, ret_attempts |-> 0]

QueueInit ==
    /\ queue = {}
    /\ next_queue_id = 1
    /\ dq = [c \in Callers |-> IdleCaller]

DrainIdle == [pc |-> "idle", results |-> 0, res |-> "none", at_start |-> {}]

EmbedIdle ==
    [pc |-> "idle", batch_size |-> 1, batch |-> <<>>, total_embedded |-> 0,
     errors |-> 0]

\* No row is under study and no decoder has run.
NoRow ==
    [present |-> FALSE, vector |-> <<>>, dimensions |-> 0, given |-> <<>>,
     intact |-> TRUE]

DecodeIdle == [op |-> "none", row |-> NoRow, res |-> [kind |-> "none", vector |-> <<>>]]

\* No search has been made.
SearchIdle ==
    [op |-> "none", text_query |-> "", query |-> <<>>, limit |-> 0,
     min_similarity |-> [some |-> FALSE, at |-> 0], vector_weight |-> 0,
     results |-> <<>>]

\* No call has been made on the FileWatcher.
WatcherIdle == [op |-> "none", events |-> <<>>]

RunsIdle ==
    /\ drain = DrainIdle
    /\ emb = EmbedIdle
    /\ embed_fails = {}
    /\ row = NoRow
    /\ dec = DecodeIdle
    /\ sr = SearchIdle
    /\ rx = <<>>
    /\ wt = WatcherIdle

\* Every path holds a small text file.
AllFiles == [p \in Paths |-> File(DocA)]

\* ------------------------------------------------------------------ files and ingestion

\* A program outside olal writes a file.
WriteFile(p, b) ==
    /\ fs[p] # File(b)
    /\ fs' = [fs EXCEPT ![p] = File(b)]
    /\ UNCHANGED <<items, chunks, embeddings, next_item_id>>

RemoveFile(p) ==
    /\ fs[p].exists
    /\ fs' = [fs EXCEPT ![p] = NoFile]
    /\ UNCHANGED <<items, chunks, embeddings, next_item_id>>

\* The chunk identifiers held outside the chunk table: by a running embedding
\* batch.
Held == {emb.batch[i].id : i \in 1..Len(emb.batch)}

\* The store takes the value db.
StoreBecomes(db) ==
    /\ items' = db.items
    /\ chunks' = db.chunks
    /\ embeddings' = db.embeddings
    /\ next_item_id' = db.next_item_id

\* `olal ingest <file>`: one call of Ingestor::ingest_file.
IngestFile(p, fault, ai) ==
    /\ \E r \in {ingest_file(p, fs, Store, Held, fault, ai)} : StoreBecomes(r.db)
    /\ UNCHANGED fs

\* Database::store_embedding for a stored chunk.
StoreEmbedding(c, v) ==
    /\ c \in chunks
    /\ embeddings' = store_embedding(embeddings, c.id, v)
    /\ UNCHANGED <<fs, items, chunks, next_item_id>>

\* What the ingestion commands leave alone.
restVars ==
    <<chunkVars, queueVars, drain, embedVars, searchVars, watchVars>>

Init ==
    /\ ChunkIdle
    /\ fs = [p \in Paths |-> NoFile]
    /\ StoreInit
    /\ QueueInit
    /\ RunsIdle

Next ==
    \/ \E p \in TextPaths, b \in Contents :
           WriteFile(p, b) /\ UNCHANGED <<ingested, restVars>>
    \/ \E p \in OtherPaths, b \in OtherContents :
           WriteFile(p, b) /\ UNCHANGED <<ingested, restVars>>
    \/ \E p \in Paths :
           RemoveFile(p) /\ UNCHANGED <<ingested, restVars>>
    \/ \E p \in Paths, fault \in Faults, ai \in Enrichers :
           IngestFile(p, fault, ai) /\ UNCHANGED <<ingested, restVars>>
    \/ \E c \in chunks, v \in Vectors :
           StoreEmbedding(c, v) /\ UNCHANGED <<ingested, restVars>>

\* The ingestion commands, the files they read and the embeddings stored for
\* their chunks.
Spec == Init /\ [][Next]_vars

\* ------------------------------------------------------------------ ingestion with its history

\* The record of a path's last successful ingest after a call returned r.
Remember(p, r) ==
    IF r.res = "Ok"
    THEN [ingested EXCEPT ![p] = [exists |-> TRUE, bytes |-> fs[p].bytes,
                                  item |-> r.item, fresh |-> TRUE]]
    ELSE ingested

\* The file of p has been written since.
Touched(p) == [ingested EXCEPT ![p].fresh = FALSE]

HistoryNext ==
    \/ \E p \in TextPaths, b \in Contents :
           WriteFile(p, b) /\ ingested' = Touched(p) /\ UNCHANGED restVars
    \/ \E p \in OtherPaths, b \in OtherContents :
           WriteFile(p, b) /\ ingested' = Touched(p) /\ UNCHANGED restVars
    \/ \E p \in Paths :
           RemoveFile(p) /\ ingested' = Touched(p) /\ UNCHANGED restVars
    \/ \E p \in Paths, ai \in Enrichers :
           /\ IngestFile(p, "none", ai)
           /\ ingested' = Remember(p, ingest_file(p, fs, Store, Held, "none", ai).ret)
           /\ UNCHANGED restVars
    \/ \E c \in chunks, v \in Vectors :
           StoreEmbedding(c, v) /\ UNCHANGED <<ingested, restVars>>

\* The same commands on a database that answers every write, with the history
\* of each path recorded.
SpecHistory == Init /\ [][HistoryNext]_vars

\* ------------------------------------------------------------------ queue operations

QueueFile(p, priority) ==
    /\ next_queue_id <= MaxQueueIds
    /\ LET r == queue_file(p, priority, fs, queue, next_queue_id)
       IN  /\ queue' = r.queue
           /\ next_queue_id' = IF r.res = "Ok" THEN next_queue_id + 1 ELSE next_queue_id
    /\ UNCHANGED dq

\* The identifiers handed out so far.
QueueIds == 1..(next_queue_id - 1)

Dequeue ==
    /\ queue' = dequeue(queue).queue
    /\ UNCHANGED <<next_queue_id, dq>>

MarkCompleted(id) ==
    /\ queue' = mark_completed(queue, id)
    /\ UNCHANGED <<next_queue_id, dq>>

MarkFailed(id, error) ==
    /\ queue' = mark_failed(queue, id, error)
    /\ UNCHANGED <<next_queue_id, dq>>

Retry(id) ==
    /\ \A r \in get_queue_item(queue, id) : r.attempts < MaxAttempts
    /\ queue' = retry(queue, id)
    /\ UNCHANGED <<next_queue_id, dq>>

ClearCompleted ==
    /\ queue' = clear_completed(queue)
    /\ UNCHANGED <<next_queue_id, dq>>

ClearFailed ==
    /\ queue' = clear_failed(queue)
    /\ UNCHANGED <<next_queue_id, dq>>

\* What the queue operations leave alone.
nonQueueVars ==
    <<chunkVars, storeVars, ingested, drain, embedVars, searchVars, watchVars>>

QueueSpecInit ==
    /\ ChunkIdle
    /\ fs = AllFiles
    /\ StoreInit
    /\ QueueInit
    /\ RunsIdle

QueueNext ==
    \/ \E p \in Paths, priority \in Priorities :
           QueueFile(p, priority) /\ UNCHANGED nonQueueVars
    \/ Dequeue /\ UNCHANGED nonQueueVars
    \/ \E id \in QueueIds : MarkCompleted(id) /\ UNCHANGED nonQueueVars
    \/ \E id \in QueueIds, error \in ErrorTexts :
           MarkFailed(id, error) /\ UNCHANGED nonQueueVars
    \/ \E id \in QueueIds : Retry(id) /\ UNCHANGED nonQueueVars
    \/ ClearCompleted /\ UNCHANGED nonQueueVars
    \/ ClearFailed /\ UNCHANGED nonQueueVars

\* One caller after the other uses the queue operations, each run to its end.
SpecQueue == QueueSpecInit /\ [][QueueNext]_vars

\* The entry id is in status st.
HasStatus(id, st) == \E r \in queue : r.id = id /\ r.status = st

LifecycleNext ==
    \/ \E p \in Paths, priority \in Priorities :
           QueueFile(p, priority) /\ UNCHANGED nonQueueVars
    \/ Dequeue /\ UNCHANGED nonQueueVars
    \/ \E id \in QueueIds :
           /\ HasStatus(id, "processing")
           /\ MarkCompleted(id)
           /\ UNCHANGED nonQueueVars
    \/ \E id \in QueueIds, error \in ErrorTexts :
           /\ HasStatus(id, "processing")
           /\ MarkFailed(id, error)
           /\ UNCHANGED nonQueueVars
    \/ \E id \in QueueIds :
           /\ HasStatus(id, "failed")
           /\ Retry(id)
           /\ UNCHANGED nonQueueVars
    \/ ClearCompleted /\ UNCHANGED nonQueueVars
    \/ ClearFailed /\ UNCHANGED nonQueueVars

\* The same, with callers that complete and fail only the entry they have
\* dequeued and retry only failed entries.
SpecLifecycle == QueueSpecInit /\ [][LifecycleNext]_vars

\* What the queue operations and the programs writing files leave alone.
nonEnqueueVars ==
    <<chunkVars, ingested, drain, embedVars, searchVars, watchVars>>

EnqueueNext ==
    \/ LifecycleNext
    \/ \E p \in Paths :
           WriteFile(p, DocA) /\ UNCHANGED <<queueVars, nonEnqueueVars>>
    \/ \E p \in Paths :
           RemoveFile(p) /\ UNCHANGED <<queueVars, nonEnqueueVars>>

\* The queue operations of SpecLifecycle while files come and go.
SpecEnqueue == QueueSpecInit /\ [][EnqueueNext]_vars

\* ------------------------------------------------------------------ concurrent dequeue

\* Each statement of Database::dequeue is one step of its caller; the
\* connections of the pool share no transaction.

\* The first SELECT, with the `return Ok(None)` when no row is pending.
DequeueSelect(c) ==
    /\ dq[c].pc = "idle"
    /\ dq' = [dq EXCEPT ![c] =
                 IF SelectPending(queue) = {}
                 THEN IdleCaller
                 ELSE [IdleCaller EXCEPT
                          !.pc = "selected",
                          !.item = (CHOOSE r \in SelectPending(queue) : TRUE).id]]
    /\ UNCHANGED <<queue, next_queue_id>>

\* The UPDATE of the selected row.
DequeueUpdate(c) ==
    /\ dq[c].pc = "selected"
    /\ queue' = UpdateProcessing(queue, dq[c].item)
    /\ dq' = [dq EXCEPT ![c].pc = "updated"]
    /\ UNCHANGED next_queue_id

\* The second SELECT and the return of the row it reads.
DequeueRefetch(c) ==
    /\ dq[c].pc = "updated"
    /\ dq' = [dq EXCEPT ![c] =
                 IF get_queue_item(queue, dq[c].item) = {}
                 THEN IdleCaller
                 ELSE [IdleCaller EXCEPT
                          !.ret = dq[c].item,
                          !.ret_attempts =
                              (CHOOSE r \in get_queue_item(queue, dq[c].item) : TRUE).attempts]]
    /\ UNCHANGED <<queue, next_queue_id>>

DequeueNext ==
    \/ \E p \in Paths, priority \in Priorities :
           QueueFile(p, priority) /\ UNCHANGED nonQueueVars
    \/ \E c \in Callers : DequeueSelect(c) /\ UNCHANGED nonQueueVars
    \/ \E c \in Callers : DequeueUpdate(c) /\ UNCHANGED nonQueueVars
    \/ \E c \in Callers : DequeueRefetch(c) /\ UNCHANGED nonQueueVars

\* Files are enqueued while several callers dequeue.
SpecDequeue == QueueSpecInit /\ [][DequeueNext]_vars

\* ------------------------------------------------------------------ queue draining

\* Ingestor::process_all is called.
DrainStart ==
    /\ drain.pc = "idle"
    /\ drain' = [DrainIdle EXCEPT
                    !.pc = "running",
                    !.at_start = {r.id : r \in {q \in queue : q.status = "pending"}}]
    /\ UNCHANGED <<storeVars, queueVars>>

\* The `?` and the match of process_all on what process_next returned.
DrainAfter(d, res) ==
    CASE res = "Some" -> [d EXCEPT !.results = @ + 1]
      [] res = "None" -> [d EXCEPT !.pc = "returned", !.res = "Ok"]
      [] res = "Err" -> [d EXCEPT !.pc = "returned", !.res = "Err"]
      [] res = "Panic" -> [d EXCEPT !.pc = "returned", !.res = "Panic"]

\* One pass of the loop of process_all: a call of process_next, the `?` and
\* the match on what it returned.
DrainStep(fault, ai) ==
    /\ drain.pc = "running"
    /\ \E r \in {process_next(fs, Store, Held, queue, fault, ai)} :
           /\ StoreBecomes(r.db)
           /\ queue' = r.queue
           /\ drain' = DrainAfter(drain, r.res)
    /\ UNCHANGED <<fs, next_queue_id, dq>>

\* What draining and its preparation leave alone.
nonDrainVars ==
    <<chunkVars, ingested, embedVars, searchVars, watchVars>>

DrainNext ==
    \/ \E p \in TextPaths, b \in Contents :
           /\ drain.pc = "idle"
           /\ WriteFile(p, b)
           /\ UNCHANGED <<queueVars, drain, nonDrainVars>>
    \/ \E p \in Paths :
           /\ drain.pc = "idle"
           /\ RemoveFile(p)
           /\ UNCHANGED <<queueVars, drain, nonDrainVars>>
    \/ \E p \in Paths, priority \in Priorities :
           /\ drain.pc = "idle"
           /\ QueueFile(p, priority)
           /\ UNCHANGED <<storeVars, drain, nonDrainVars>>
    \/ DrainStart /\ UNCHANGED nonDrainVars
    \/ \E fault \in Faults, ai \in Enrichers :
           DrainStep(fault, ai) /\ UNCHANGED nonDrainVars

\* Files are written and enqueued, then one process_all call drains the queue
\* with nothing enqueued meanwhile.
SpecDrain == QueueSpecInit /\ [][DrainNext]_vars

\* ------------------------------------------------------------------ enrichment

\* The texts written in the runs that look at enrichment.
EnrichContents == {DocA, DocWide}

\* One call of Ingestor::process_next.
ProcessNext(fault, ai) ==
    /\ \E r \in {process_next(fs, Store, Held, queue, fault, ai)} :
           StoreBecomes(r.db) /\ queue' = r.queue
    /\ UNCHANGED <<fs, next_queue_id, dq>>

EnrichNext ==
    \/ \E p \in TextPaths, b \in EnrichContents :
           WriteFile(p, b) /\ UNCHANGED <<queueVars, nonEnqueueVars>>
    \/ \E p \in Paths, ai \in Enrichers :
           IngestFile(p, "none", ai) /\ UNCHANGED <<queueVars, nonEnqueueVars>>
    \/ \E p \in Paths :
           QueueFile(p, 0) /\ UNCHANGED <<storeVars, nonEnqueueVars>>
    \/ \E ai \in Enrichers :
           ProcessNext("none", ai) /\ UNCHANGED nonEnqueueVars

\* Files are written, ingested directly and through the queue, with an
\* enricher that answers, fails or is unavailable, on a database that answers
\* every write.
SpecEnrich == QueueSpecInit /\ [][EnrichNext]_vars

\* ------------------------------------------------------------------ batch embedding

\* `olal embed --all --batch-size n` is started: embed_all up to its loop.  How
\* the embedder answers during the run is fixed here.
EmbedStart(n) ==
    /\ emb.pc \in {"idle", "done"}
    /\ embed_fails' \in SUBSET ChunkTexts
    /\ LET stats == embedding_stats(chunks, embeddings)
           remaining == stats[2] - stats[1]
       IN  emb' = [EmbedIdle EXCEPT !.pc = IF remaining = 0 THEN "done" ELSE "fetch",
                                    !.batch_size = n]
    /\ UNCHANGED storeVars

\* `let chunks = db.get_unembedded_chunks(batch_size)?` and the break.
EmbedFetch ==
    /\ emb.pc = "fetch"
    /\ LET batch == get_unembedded_chunks(chunks, embeddings, emb.batch_size)
       IN  emb' = [emb EXCEPT !.batch = batch,
                              !.pc = IF batch = <<>> THEN "done" ELSE "embed"]
    /\ UNCHANGED <<storeVars, embed_fails>>

\* One pass of `for chunk in &chunks`: the embedder answers with a vector,
\* which is stored, or fails, which is counted.
EmbedOne(v) ==
    /\ emb.pc = "embed"
    /\ LET chunk == Head(emb.batch)
           rest == [emb EXCEPT !.batch = Tail(@),
                               !.pc = IF Tail(emb.batch) = <<>> THEN "fetch" ELSE "embed"]
       IN  IF chunk.content \in embed_fails
           THEN /\ emb' = [rest EXCEPT !.errors = Min(@ + 1, MaxErrors)]
                /\ UNCHANGED embeddings
           ELSE /\ emb' = [rest EXCEPT !.total_embedded = @ + 1]
                /\ embeddings' = store_embedding(embeddings, chunk.id, v)
    /\ UNCHANGED <<fs, items, chunks, next_item_id, embed_fails>>

\* What the embedding run and the ingests before it leave alone.
nonEmbedVars ==
    <<chunkVars, ingested, queueVars, drain, searchVars, watchVars>>

EmbedSpecInit ==
    /\ ChunkIdle
    /\ fs = [p \in Paths |-> File(IF p[1] = "b" THEN DocB ELSE DocA)]
    /\ StoreInit
    /\ QueueInit
    /\ RunsIdle

\* The statements of a started run.
EmbedRun ==
    \/ EmbedFetch /\ UNCHANGED nonEmbedVars
    \/ \E v \in Vectors : EmbedOne(v) /\ UNCHANGED nonEmbedVars

EmbedNext ==
    \/ \E p \in Paths, fault \in Faults, ai \in Enrichers :
           /\ emb.pc \in {"idle", "done"}
           /\ IngestFile(p, fault, ai)
           /\ UNCHANGED <<embedVars, nonEmbedVars>>
    \/ \E n \in 1..MaxBatch : EmbedStart(n) /\ UNCHANGED nonEmbedVars
    \/ EmbedRun

\* Files are ingested, and embedding runs are started between the ingests.
SpecEmbed == EmbedSpecInit /\ [][EmbedNext]_vars

\* embed_all is sequential code: a started run executes its next statement.
FairSpecEmbed == EmbedSpecInit /\ [][EmbedNext]_vars /\ WF_vars(EmbedRun)

\* ------------------------------------------------------------------ decoding a stored embedding

\* The vectors given to store_embedding.
StoredVectors == UNION {[1..n -> Floats] : n \in 0..MaxDimensions}

\* What storing, damaging and decoding a row leave alone.
nonDecodeVars ==
    <<chunkVars, storeVars, ingested, queueVars, drain, embedVars, sr, watchVars>>

\* Database::store_embedding, seen as the row it writes.
StoreRow(v) ==
    /\ row' = EmbeddingRow(v)
    /\ UNCHANGED <<dec, nonDecodeVars>>

\* The file loses the last byte of the stored vector.
TruncateRow ==
    /\ row.present
    /\ row.vector # <<>>
    /\ row' = [row EXCEPT !.vector = SubSeq(@, 1, Len(@) - 1), !.intact = FALSE]
    /\ UNCHANGED <<dec, nonDecodeVars>>

\* The stored vector gains a zero byte.
PadRow ==
    /\ row.present
    /\ Len(row.vector) < 4 * row.dimensions + MaxPadding
    /\ row' = [row EXCEPT !.vector = Append(@, 0), !.intact = FALSE]
    /\ UNCHANGED <<dec, nonDecodeVars>>

\* A decoder reads the row.
Decode(op, res) ==
    /\ row.present
    /\ dec' = [op |-> op, row |-> row, res |-> res]
    /\ UNCHANGED <<row, nonDecodeVars>>

DecodeNext ==
    \/ \E v \in StoredVectors : StoreRow(v)
    \/ TruncateRow
    \/ PadRow
    \/ Decode("get_embedding", get_embedding(row))
    \/ Decode("vector_search", decode_vector(row))
    \/ Decode("get_all_embeddings", decode_vector(row))

SpecDecode == Init /\ [][DecodeNext]_vars

\* ------------------------------------------------------------------ search calls

\* Largest limit given to a search.
MaxLimit == 2

\* The minimum similarities given to vector_search: none, -1.0, 0.5 and 1.0.
Minimums == {NoMinimum, Minimum(-10), Minimum(5), Minimum(10)}

\* What a search leaves alone: it reads the store only.
nonSearchVars ==
    <<chunkVars, storeVars, ingested, queueVars, drain, embedVars, row, dec,
      watchVars>>

\* A caller's vector_search.
VectorSearch(query_vector, limit, min_similarity) ==
    /\ \E rows \in RowOrders(JoinedRows(embeddings, chunks, items)) :
           sr' = [op |-> "vector_search", text_query |-> "",
                  query |-> query_vector, limit |-> limit,
                  min_similarity |-> min_similarity, vector_weight |-> 0,
                  results |-> vector_search(rows, query_vector, limit, min_similarity)]
    /\ UNCHANGED nonSearchVars

\* The terms of the lexical queries: one that the stored texts hold and one
\* that they do not.
Terms == {"a", "b"}

\* vector_weight, in tenths: 0.0, 0.5 and 1.0.
Weights == {0, 5, 10}

\* A caller's hybrid_search.
HybridSearch(term, query_vector, limit, vector_weight) ==
    /\ \E rows \in RowOrders(JoinedRows(embeddings, chunks, items)),
          fts_results \in FtsOrders(FtsJoined(chunks, items, term), limit * 2) :
         \E values \in RowOrders(CombinedIds(
                          vector_search(rows, query_vector, limit * 2, Minimum(1)),
                          fts_results)) :
           sr' = [op |-> "hybrid_search", text_query |-> term,
                  query |-> query_vector, limit |-> limit,
                  min_similarity |-> Minimum(1), vector_weight |-> vector_weight,
                  results |-> hybrid_search(rows, fts_results, values, query_vector,
                                            limit, vector_weight)]
    /\ UNCHANGED nonSearchVars

SearchNext ==
    \/ \E p \in TextPaths :
           /\ sr = SearchIdle
           /\ IngestFile(p, "none", "unavailable")
           /\ UNCHANGED <<ingested, restVars>>
    \/ \E c \in chunks, v \in SearchVectors :
           /\ sr = SearchIdle
           /\ StoreEmbedding(c, v)
           /\ UNCHANGED <<ingested, restVars>>
    \/ \E q \in QueryVectors, limit \in 0..MaxLimit, m \in Minimums :
           sr = SearchIdle /\ VectorSearch(q, limit, m)
    \/ \E term \in Terms, q \in QueryVectors, limit \in 0..MaxLimit, w \in Weights :
           sr = SearchIdle /\ HybridSearch(term, q, limit, w)

\* Two text files are ingested and their chunks are given embeddings; then
\* the store is searched once.
SpecSearch == EmbedSpecInit /\ [][SearchNext]_vars

\* ------------------------------------------------------------------ file watcher

\* Most batches that wait in the receiver at one time.
MaxBatches == 2

\* Most events of one debounced batch.
MaxBatchEvents == 2

\* A temporary file and a directory below the watched directory.
TmpPath == <<"d", "tmp">>

DirPath == <<"e", "">>

\* The paths the debouncer reports.
EventPaths == Paths \cup {TmpPath, DirPath}

\* Path::is_dir
is_dir(p) == p = DirPath

\* FileWatcher::should_ignore with the patterns of WatchConfig::default:
\* "*.tmp", "*.temp" and "*.part" match by the extension; ".DS_Store", "._*"
\* and the hidden files have a name that starts with a dot, an empty stem.
should_ignore(p) ==
    \/ Extension(p) \in {"tmp", "temp", "part"}
    \/ p[1] = ""

FileChanged(p, item_type) == [kind |-> "FileChanged", path |-> p, item_type |-> item_type]

FileDeleted(p) == [kind |-> "FileDeleted", path |-> p, item_type |-> NONE]

\* WatchEvent::Error
WatchError == [kind |-> "Error", path |-> <<>>, item_type |-> NONE]

\* FileWatcher::process_event: the Option it returns, as a sequence of no or
\* one WatchEvent.
process_event(p, files) ==
    IF is_dir(p)
    THEN <<>>
    ELSE IF should_ignore(p)
    THEN <<>>
    ELSE IF from_extension(Extension(p)) = NONE
    THEN <<>>
    ELSE IF files[p].exists
    THEN <<FileChanged(p, from_extension(Extension(p)))>>
    ELSE <<FileDeleted(p)>>

\* What the debouncer sends: Ok with the events of one window, every path once,
\* or Err.
OkBatch(events) == [ok |-> TRUE, events |-> events]

ErrBatch == [ok |-> FALSE, events |-> <<>>]

Batches ==
    {OkBatch(s) : s \in {t \in UNION {[1..n -> EventPaths] : n \in 1..MaxBatchEvents} :
                            \A i, j \in DOMAIN t : t[i] = t[j] => i = j}}
    \cup {ErrBatch}

\* The inner loop of poll: every event of the batch goes through
\* process_event, and every WatchEvent it gives is pushed.
RECURSIVE PushEvents(_, _)
PushEvents(debounced_events, files) ==
    IF debounced_events = <<>>
    THEN <<>>
    ELSE process_event(Head(debounced_events), files)
             \o PushEvents(Tail(debounced_events), files)

\* FileWatcher::poll: try_recv until the receiver is empty.
RECURSIVE poll(_, _)
poll(receiver, files) ==
    IF receiver = <<>>
    THEN <<>>
    ELSE IF Head(receiver).ok
    THEN PushEvents(Head(receiver).events, files) \o poll(Tail(receiver), files)
    ELSE <<WatchError>> \o poll(Tail(receiver), files)

\* The loop of next_event: it returns at the first event of the batch that
\* process_event turns into a WatchEvent.
RECURSIVE FirstEvent(_, _)
FirstEvent(debounced_events, files) ==
    IF debounced_events = <<>>
    THEN <<>>
    ELSE IF process_event(Head(debounced_events), files) # <<>>
    THEN process_event(Head(debounced_events), files)
    ELSE FirstEvent(Tail(debounced_events), files)

\* FileWatcher::next_event for the batch that recv returns; the sender lives as
\* long as the watcher, so that recv does not fail.
next_event(result, files) ==
    IF result.ok THEN FirstEvent(result.events, files) ELSE <<WatchError>>

\* The body of the for loop of the watch command: a changed file is queued
\* with priority 0 and the outcome is printed; the other events are printed.
RECURSIVE QueueEvents(_, _, _, _)
QueueEvents(events, files, q, id) ==
    IF events = <<>>
    THEN [queue |-> q, next_queue_id |-> id]
    ELSE IF Head(events).kind = "FileChanged"
    THEN LET r == queue_file(Head(events).path, 0, files, q, id)
         IN  QueueEvents(Tail(events), files, r.queue,
                         IF r.res = "Ok" THEN id + 1 ELSE id)
    ELSE QueueEvents(Tail(events), files, q, id)

\* What the watcher and its debouncer leave alone.
nonWatcherVars ==
    <<chunkVars, storeVars, ingested, queueVars, drain, embedVars, searchVars>>

\* What the watch command leaves alone.
nonWatchVars ==
    <<chunkVars, storeVars, ingested, dq, drain, embedVars, searchVars>>

\* The debouncer sends the events of one window.
Notify(batch) ==
    /\ Len(rx) < MaxBatches
    /\ rx' = Append(rx, batch)
    /\ UNCHANGED wt
    /\ UNCHANGED nonWatcherVars

\* A caller's poll.
Poll ==
    /\ wt' = [op |-> "poll", events |-> poll(rx, fs)]
    /\ rx' = <<>>
    /\ UNCHANGED nonWatcherVars

\* A caller's next_event, which blocks while the receiver is empty.
NextEvent ==
    /\ rx # <<>>
    /\ wt' = [op |-> "next_event", events |-> next_event(Head(rx), fs)]
    /\ rx' = Tail(rx)
    /\ UNCHANGED nonWatcherVars

\* One pass of the main loop of the watch command.
WatchLoop ==
    /\ wt' = [op |-> "poll", events |-> poll(rx, fs)]
    /\ rx' = <<>>
    /\ \E r \in {QueueEvents(poll(rx, fs), fs, queue, next_queue_id)} :
           /\ queue' = r.queue
           /\ next_queue_id' = r.next_queue_id
    /\ UNCHANGED nonWatchVars

\* The files of the watched directory change.
WatchedFiles ==
    \/ \E p \in TextPaths : WriteFile(p, DocA) /\ UNCHANGED <<ingested, restVars>>
    \/ \E p \in TextPaths : RemoveFile(p) /\ UNCHANGED <<ingested, restVars>>

WatcherNext ==
    \/ WatchedFiles
    \/ \E batch \in Batches : Notify(batch)
    \/ Poll
    \/ NextEvent

\* A FileWatcher, the files it watches and the callers of its two methods.
SpecWatcher == Init /\ [][WatcherNext]_vars

WatchNext ==
    \/ WatchedFiles
    \/ \E batch \in Batches : Notify(batch)
    \/ WatchLoop

\* `olal watch`: the process runs its main loop and nothing else.
SpecWatch == Init /\ [][WatchNext]_vars

\* The main loop keeps running.
FairSpecWatch == Init /\ [][WatchNext]_vars /\ WF_vars(WatchLoop)

\* ------------------------------------------------------------------ chunker run

ChunkConfigs ==
    [chunk_size : 1..MaxChunkSize, chunk_overlap : 0..MaxChunkSize,
     min_chunk_size : 0..MaxMinChunk]

Texts == UNION {[1..n -> Alphabet] : n \in 0..MaxLen}

\* No call is running; the caller has not chosen its input yet.
ChunkInit ==
    /\ ChunkIdle
    /\ fs = AllFiles
    /\ StoreInit
    /\ QueueInit
    /\ RunsIdle

\* What chunk_text does not touch: it reads its arguments only.
nonChunkVars ==
    <<storeVars, ingested, queueVars, drain, embedVars, searchVars, watchVars>>

\* A caller builds a Chunker with some configuration and calls chunk_text.
ChunkCall ==
    /\ ck.pc = "idle"
    /\ config' \in ChunkConfigs
    /\ text' \in Texts
    /\ ck' = ChunkerInit
    /\ UNCHANGED <<tr, nonChunkVars>>

\* The same, with a configuration whose overlap is smaller than its chunk size.
ChunkCallValid ==
    /\ ChunkCall
    /\ config'.chunk_overlap < config'.chunk_size

ChunkBegin ==
    /\ ck.pc = "start"
    /\ ck' = ChunkTextBegin(config, text, ck)
    /\ UNCHANGED <<config, text, tr, nonChunkVars>>

ChunkParagraph ==
    /\ ck.pc = "para"
    /\ ck.paragraphs # <<>>
    /\ ck' = ParagraphStep(config, ck)
    /\ UNCHANGED <<config, text, tr, nonChunkVars>>

ChunkForceSplitTest ==
    /\ ck.pc = "fs_test"
    /\ ck' = ForceSplitTest(config, ck)
    /\ UNCHANGED <<config, text, tr, nonChunkVars>>

ChunkForceSplitBody ==
    /\ ck.pc = "fs_body"
    /\ ck' = ForceSplitBody(config, ck)
    /\ UNCHANGED <<config, text, tr, nonChunkVars>>

ChunkEnd ==
    /\ ck.pc = "para"
    /\ ck.paragraphs = <<>>
    /\ ck' = ChunkTextEnd(ck)
    /\ UNCHANGED <<config, text, tr, nonChunkVars>>

ChunkRun ==
    \/ ChunkBegin
    \/ ChunkParagraph
    \/ ChunkForceSplitTest
    \/ ChunkForceSplitBody
    \/ ChunkEnd

ChunkNext == ChunkCall \/ ChunkRun

SpecChunk == ChunkInit /\ [][ChunkNext]_vars

ValidChunkNext == ChunkCallValid \/ ChunkRun

\* chunk_text is straight-line sequential code: a call that has a next
\* statement executes it.
FairSpecChunk == ChunkInit /\ [][ValidChunkNext]_vars /\ WF_vars(ValidChunkNext)

\* A caller builds a Chunker with some configuration and calls
\* chunk_transcript, which runs to its end.
TranscriptCall ==
    /\ tr.pc = "idle"
    /\ \E cfg \in ChunkConfigs, segments \in Transcripts :
           tr' = [pc |-> "done", config |-> cfg, segments |-> segments,
                  chunks |-> chunk_transcript(cfg, segments)]
    /\ UNCHANGED <<config, text, ck, nonChunkVars>>

SpecTranscript == ChunkInit /\ [][TranscriptCall]_vars

\* Before anything is ingested a Chunker is tried on a text or on a
\* transcript; or files are ingested.
IndicesNext ==
    \/ /\ items = {}
       /\ \A p \in Paths : ~fs[p].exists
       /\ tr.pc = "idle"
       /\ ChunkNext
    \/ /\ items = {}
       /\ \A p \in Paths : ~fs[p].exists
       /\ ck.pc = "idle"
       /\ TranscriptCall
    \/ /\ ck.pc = "idle"
       /\ tr.pc = "idle"
       /\ Next

SpecIndices == Init /\ [][IndicesNext]_vars

\* The scenario of three paragraphs of 50, 400 and 50 characters chunked with
\* chunk_size = 300 and chunk_overlap = 50, at one fiftieth of its scale: the
\* minimum is any the model draws, the paragraphs are any of these lengths
\* that begin and end with a letter or a full stop.
ScenarioConfigs ==
    [chunk_size : {6}, chunk_overlap : {1}, min_chunk_size : 0..MaxMinChunk]

ScenarioParagraphs(n) ==
    {s \in [1..n -> {"a", ".", " "}] : s[1] # " " /\ s[n] # " "}

ScenarioTexts ==
    {first \o <<"\n", "\n">> \o second \o <<"\n", "\n">> \o third :
        first \in ScenarioParagraphs(1), second \in ScenarioParagraphs(8),
        third \in ScenarioParagraphs(1)}

ScenarioCall ==
    /\ ck.pc = "idle"
    /\ config' \in ScenarioConfigs
    /\ text' \in ScenarioTexts
    /\ ck' = ChunkerInit
    /\ UNCHANGED <<tr, nonChunkVars>>

ScenarioNext == ScenarioCall \/ ChunkRun

SpecScenario == ChunkInit /\ [][ScenarioNext]_vars

\* C9: chunk_text returns for every text and every configuration with
\* 0 <= chunk_overlap < chunk_size.
C9_ChunkTextTerminates ==
    <>(ck.pc = "done")


\* ------------------------------------------------------------------ ingestion claims

\* The index and the text of stored chunks.
ChunkView(S) == {[chunk_index |-> c.chunk_index, content |-> c.content] : c \in S}

\* The index and the text of the chunks the chunker emits for the bytes b.
EmittedView(b) ==
    {chunk_text(IngestConfig, b)[i] : i \in 1..Len(chunk_text(IngestConfig, b))}

\* C5: a successful ingest of a path that owns an item and whose content
\* differs from the content last ingested for it returns that item's
\* identifier with was_update = true, and leaves the item with exactly the
\* chunks of the new content.
C5_ReingestChangedKeepsItem ==
    [][\A p \in Paths, ai \in Enrichers :
          LET r == ingest_file(p, fs, Store, Held, "none", ai).ret
              owner == find_item_by_path(items, p)
          IN  (/\ IngestFile(p, "none", ai)
               /\ owner # {}
               /\ ingested[p].exists
               /\ fs[p].exists
               /\ fs[p].bytes # ingested[p].bytes
               /\ r.res = "Ok")
              => /\ r.item \in {it.id : it \in owner}
                 /\ r.was_update
                 /\ \A it \in owner :
                        ChunkView(get_chunks_by_item(chunks', it.id))
                            = EmittedView(fs[p].bytes)]_vars

\* C6: an ingest of a path whose file was not written since its last
\* successful ingest returns the identifier that ingest returned, with
\* was_update = false, and leaves items, chunks and embeddings as they were.
C6_ReingestUnchangedIsNoOp ==
    [][\A p \in Paths, ai \in Enrichers :
          LET r == ingest_file(p, fs, Store, Held, "none", ai).ret
          IN  (IngestFile(p, "none", ai) /\ ingested[p].fresh)
              => /\ r.res = "Ok"
                 /\ r.item = ingested[p].item
                 /\ ~r.was_update
                 /\ items' = items
                 /\ chunks' = chunks
                 /\ embeddings' = embeddings]_vars

\* The item holds the complete chunk set of the content its hash names.
Complete(it, tbl) ==
    \E b \in Contents :
        /\ it.content_hash = hash_file(b)
        /\ ChunkView(get_chunks_by_item(tbl, it.id)) = EmittedView(b)

\* C7: when an ingest of a path that owns an item with a complete chunk set
\* returns, with success or with an error, the item has either the chunks and
\* the content hash it had before the call, or the chunks of the file's
\* content and the hash of that content.
C7_NoPartialChunkSet ==
    [][\A p \in Paths, fault \in Faults, ai \in Enrichers :
          IngestFile(p, fault, ai)
          => \A old \in {it \in find_item_by_path(items, p) : Complete(it, chunks)} :
                \E new \in items' :
                    /\ new.id = old.id
                    /\ \/ /\ get_chunks_by_item(chunks', old.id)
                                = get_chunks_by_item(chunks, old.id)
                          /\ new.content_hash = old.content_hash
                       \/ /\ fs[p].exists
                          /\ ChunkView(get_chunks_by_item(chunks', old.id))
                                = EmittedView(fs[p].bytes)
                          /\ new.content_hash = hash_file(fs[p].bytes)]_vars

\* C8: no two stored items have the same source path.
C8_OneItemPerPath ==
    \A i \in items, j \in items : i.source_path = j.source_path => i = j

\* Two paths own an item each, and one of the items was enriched when its file
\* held DocB and has since been ingested again with DocA.
C8_TwoItemsOneUpdated ==
    /\ Cardinality(items) = 2
    /\ \E it \in items : it.summary # NONE /\ it.content_hash = hash_file(DocA)


\* ------------------------------------------------------------------ queue claims

\* C1: with concurrent dequeue callers no entry is returned to two of them,
\* and an entry taken from pending to processing has an attempt count of one
\* more than before (entries are enqueued with count 0 and taken at most once).
C1_NoDoubleHandout ==
    /\ \A c1 \in Callers, c2 \in Callers :
           (c1 # c2 /\ dq[c1].ret # 0) => dq[c1].ret # dq[c2].ret
    /\ \A r \in queue : r.attempts = IF r.status = "processing" THEN 1 ELSE 0

\* C2: every source path has at most one entry in pending or processing status.
C2_OneLiveEntryPerPath ==
    \A p \in Paths :
        Cardinality({r \in queue : /\ r.source_path = p
                                  /\ r.status \in {"pending", "processing"}}) <= 1

\* C3: when process_all has returned no entry is pending, and every entry that
\* was pending when it was called is done or failed.
C3_DrainLeavesNothingPending ==
    drain.pc = "returned" =>
        /\ \A r \in queue : r.status # "pending"
        /\ \A r \in queue : r.id \in drain.at_start => r.status \in {"done", "failed"}

\* C4: an entry changes its status only from pending to processing by dequeue,
\* from processing to done by complete, from processing to failed by fail and
\* from failed to pending by retry.
C4_StatusLifecycle ==
    [][\A r \in queue, n \in queue' :
          (n.id = r.id /\ n.status # r.status) =>
              \/ r.status = "pending" /\ n.status = "processing" /\ Dequeue
              \/ r.status = "processing" /\ n.status = "done" /\ MarkCompleted(r.id)
              \/ /\ r.status = "processing" /\ n.status = "failed"
                 /\ \E error \in ErrorTexts : MarkFailed(r.id, error)
              \/ r.status = "failed" /\ n.status = "pending" /\ Retry(r.id)]_vars


\* ------------------------------------------------------------------ embedding claims

\* The chunk has an embedding.
Embedded(c) == \E e \in embeddings : e.chunk_id = c.id

\* C10: a started embedding run ends, also when the embedder fails on some
\* chunk every time; at its end every chunk the embedder accepts is embedded.
C10_EmbedAllTerminates ==
    (emb.pc = "fetch") ~>
        (emb.pc = "done" /\ \A c \in chunks : c.content \notin embed_fails => Embedded(c))


\* ------------------------------------------------------------------ queue claims, continued

\* The path p has an entry in one of the statuses sts.
EntryIn(p, sts) == \E e \in queue : e.source_path = p /\ e.status \in sts

\* queue_file(p) added exactly one entry to q: a pending one for p that was
\* never attempted.
AddsFreshEntry(r, q, p) ==
    /\ q \subseteq r.queue
    /\ \E e \in r.queue \ q :
           /\ r.queue \ q = {e}
           /\ e.source_path = p
           /\ e.status = "pending"
           /\ e.attempts = 0

\* The two cases of C11 for the path p.
EnqueueOutcome(p, priority) ==
    LET r == queue_file(p, priority, fs, queue, next_queue_id)
    IN  /\ EntryIn(p, {"pending", "processing"}) =>
               r.res = "AlreadyProcessed" /\ r.queue = queue
        /\ (EntryIn(p, {"done", "failed"}) /\ ~EntryIn(p, {"pending", "processing"})) =>
               r.res = "Ok" /\ AddsFreshEntry(r, queue, p)

Pending == {e \in queue : e.status = "pending"}

\* No pending entry is to be served before e.
FirstInOrder(e) ==
    \A o \in Pending :
        \/ o.priority < e.priority
        \/ o.priority = e.priority /\ o.created_at >= e.created_at

\* C12: dequeue returns the pending entry of greatest priority and, among
\* those, of earliest creation, now in processing status with one more
\* attempt, and leaves the other entries alone; it returns nothing and changes
\* nothing exactly when no entry is pending; it never returns an entry that
\* was in processing, done or failed status.
C12_DequeueOrder ==
    LET d == dequeue(queue)
    IN  /\ (d.item = 0) = (Pending = {})
        /\ Pending = {} => d.queue = queue
        /\ Pending # {} =>
               \E e \in Pending :
                   /\ e.id = d.item
                   /\ FirstInOrder(e)
                   /\ d.queue = (queue \ {e}) \cup
                          {[e EXCEPT !.status = "processing", !.started_at = "now",
                                     !.attempts = e.attempts + 1]}

\* dequeue has passed over an older pending entry for a newer one of greater
\* priority, which is now being processed for the first time.
C12_NewerServedFirst ==
    \E e \in queue, o \in queue :
        /\ e.status = "processing"
        /\ e.attempts = 1
        /\ o.status = "pending"
        /\ o.created_at < e.created_at
        /\ o.priority < e.priority

\* The entry with identifier id after the step.
EntryAfter(id) == {n \in queue' : n.id = id}

\* C13: a retry of a failed entry leaves it pending with its error message
\* and both timestamps cleared and everything else as it was, the attempt
\* count included; the dequeue that takes a pending entry adds one to its
\* attempt count, so that a retried entry is dequeued with one attempt more
\* than it had before the retry.
C13_RetryResetsFailedEntry ==
    [][\A e \in queue : \A n \in EntryAfter(e.id) :
          /\ (e.status = "failed" /\ n.status = "pending") =>
                 n = [e EXCEPT !.status = "pending", !.error = NONE,
                               !.started_at = NONE, !.completed_at = NONE]
          /\ (e.status = "pending" /\ n.status = "processing") =>
                 n = [e EXCEPT !.status = "processing", !.started_at = "now",
                               !.attempts = e.attempts + 1]]_vars

\* An entry failed, was retried and is processed a second time.
C13_RetriedEntryDequeued ==
    \E e \in queue :
        /\ e.status = "processing"
        /\ e.attempts = 2
        /\ e.error = NONE
        /\ e.completed_at = NONE


\* ------------------------------------------------------------------ ingestion claims, continued

\* Path resolution, type detection, hashing and parsing of p succeed.
Ingestible(p) ==
    /\ fs[p].exists
    /\ from_extension(Extension(p)) # NONE
    /\ ValidUtf8(fs[p].bytes)

\* C14: when path resolution, hashing, parsing and chunk persistence succeed,
\* ingest_file returns success and stores the same chunks whatever the
\* enricher does, and process_next completes the entry it dequeued for such
\* a path.
C14_EnrichmentNeverFailsIngest ==
    \A ai \in Enrichers :
        /\ \A p \in Paths :
               Ingestible(p) =>
                   LET r == ingest_file(p, fs, Store, Held, "none", ai)
                       plain == ingest_file(p, fs, Store, Held, "none", "unavailable")
                   IN  /\ r.ret.res = "Ok"
                       /\ r.db.chunks = plain.db.chunks
        /\ LET d == dequeue(queue)
               r == process_next(fs, Store, Held, queue, "none", ai)
           IN  \A e \in get_queue_item(queue, d.item) :
                   Ingestible(e.source_path) =>
                       /\ r.res = "Some"
                       /\ \A n \in get_queue_item(r.queue, e.id) : n.status = "done"

\* C15: ingest_file of a path that does not exist fails with FileNotFound and
\* ingest_file of an existing path whose extension names no type fails with
\* UnsupportedFileType; neither changes the store (ingest_file never touches
\* the queue).
C15_RejectsMissingAndUnsupported ==
    \A p \in Paths, fault \in Faults, ai \in Enrichers :
        LET r == ingest_file(p, fs, Store, Held, fault, ai)
        IN  /\ ~fs[p].exists =>
                   r.ret.res = "FileNotFound" /\ r.db = Store
            /\ (fs[p].exists /\ from_extension(Extension(p)) = NONE) =>
                   r.ret.res = "UnsupportedFileType" /\ r.db = Store


\* ------------------------------------------------------------------ chunker claims

\* The chunks of a sequence are numbered 0, 1, 2, ... in their order.
Contiguous(emitted) == \A i \in 1..Len(emitted) : emitted[i].chunk_index = i - 1

\* The stored chunks of the item have the indices 0..n-1, each once.
StoredContiguous(id) ==
    LET own == get_chunks_by_item(chunks, id)
    IN  /\ {c.chunk_index : c \in own} = 0..(Cardinality(own) - 1)
        /\ \A c \in own, d \in own : c.chunk_index = d.chunk_index => c = d

\* C16: chunk_text and chunk_transcript number the chunks they return
\* 0..n-1 in emission order, and after any sequence of ingests the stored
\* chunks of every item have exactly the indices 0..n-1.
C16_ContiguousIndices ==
    /\ ck.pc = "done" => Contiguous(ck.chunks)
    /\ tr.pc = "done" => Contiguous(tr.chunks)
    /\ \A it \in items : StoredContiguous(it.id)

\* Two items are stored, one of them with two chunks.
C16_ItemWithTwoChunks ==
    \E it \in items, other \in items :
        /\ it # other
        /\ Cardinality(get_chunks_by_item(chunks, it.id)) = 2
        /\ Cardinality(get_chunks_by_item(chunks, other.id)) = 1

\* C17: of the chunks chunk_text returns for a text longer than chunk_size,
\* all but the first and the last have at least min_chunk_size characters.
C17_MiddleChunksReachMinimum ==
    (ck.pc = "done" /\ Len(text) > config.chunk_size) =>
        \A i \in 2..(Len(ck.chunks) - 1) :
            Len(ck.chunks[i].content) >= config.min_chunk_size

\* chunk_text has returned three chunks or more for a text longer than
\* chunk_size, under a minimum that a buffer of white space misses.
C17_ThreeChunksWithMinimum ==
    /\ ck.pc = "done"
    /\ Len(text) > config.chunk_size
    /\ Len(ck.chunks) >= 3
    /\ config.min_chunk_size >= 1

\* The buffer chunk_transcript holds when it first meets a segment that does
\* not fit: the texts of the segments before it, joined by spaces.
RECURSIVE FirstFlush(_, _, _, _)
FirstFlush(cfg, segments, buffer, i) ==
    IF i > Len(segments)
    THEN [flushed |-> FALSE, buffer |-> buffer]
    ELSE IF buffer # <<>> /\ Len(buffer) + Len(segments[i].text) + 1 > cfg.chunk_size
    THEN [flushed |-> TRUE, buffer |-> buffer]
    ELSE FirstFlush(cfg, segments,
                    (IF buffer # <<>> THEN Append(buffer, " ") ELSE buffer)
                        \o segments[i].text,
                    i + 1)

\* C18: the first buffer chunk_transcript flushes is emitted as chunk 0,
\* also when it is shorter than min_chunk_size.
C18_TranscriptFirstChunkException ==
    tr.pc = "done" =>
        LET first == FirstFlush(tr.config, tr.segments, <<>>, 1)
        IN  first.flushed =>
                /\ tr.chunks # <<>>
                /\ tr.chunks[1].chunk_index = 0
                /\ tr.chunks[1].content = Trim(first.buffer)

\* C20: every chunk chunk_transcript returns has a start and an end time;
\* the end time is the end of the last segment pushed to its buffer and the
\* start time the start of the first segment pushed to it, the text carried
\* over from the buffer before not counted.
C20_TranscriptTimes ==
    tr.pc = "done" =>
        \A i \in 1..Len(tr.chunks) :
            LET c == tr.chunks[i]
            IN  /\ c.start_time.some
                /\ c.end_time.some
                /\ c.first \in 1..Len(tr.segments)
                /\ c.last \in c.first..Len(tr.segments)
                /\ c.start_time.at = tr.segments[c.first].start
                /\ c.end_time.at = tr.segments[c.last].end

\* chunk_transcript has returned a second chunk that holds text carried over
\* from the first and then one segment, the second or a later one.
C20_SecondChunkWithOverlap ==
    /\ tr.pc = "done"
    /\ tr.config.chunk_overlap >= 1
    /\ Len(tr.chunks) >= 2
    /\ tr.chunks[2].first >= 2
    /\ tr.chunks[2].last = tr.chunks[2].first
    /\ Len(tr.chunks[2].content) > Len(tr.segments[tr.chunks[2].first].text)

\* s begins with the sequence p.
StartsWith(s, p) == Len(s) >= Len(p) /\ SubSeq(s, 1, Len(p)) = p

\* C19: for three paragraphs of 50, 400 and 50 characters, chunk_size = 300
\* and chunk_overlap = 50 (here at one fiftieth), chunk_text returns exactly
\* two chunks, the second of which begins with the last chunk_overlap
\* characters of the first.
C19_ScenarioTwoChunks ==
    ck.pc = "done" =>
        /\ Len(ck.chunks) = 2
        /\ StartsWith(ck.chunks[2].content,
                      Tail_n(ck.chunks[1].content, config.chunk_overlap))

\* C21: a text that is empty after trimming gives no chunk; a text of at most
\* chunk_size characters after trimming gives exactly one chunk, with index 0
\* and the trimmed text as content.
C21_SmallTextSingleChunk ==
    ck.pc = "done" =>
        /\ Trim(text) = <<>> => ck.chunks = <<>>
        /\ (Trim(text) # <<>> /\ Len(Trim(text)) <= config.chunk_size) =>
               /\ Len(ck.chunks) = 1
               /\ ck.chunks[1].chunk_index = 0
               /\ ck.chunks[1].content = Trim(text)

\* chunk_text has returned for a text that fits in one chunk only once its
\* surrounding white space is trimmed.
C21_FitsOnlyTrimmed ==
    /\ ck.pc = "done"
    /\ Trim(text) # <<>>
    /\ Len(Trim(text)) <= config.chunk_size
    /\ Len(text) > config.chunk_size
    /\ Len(ck.chunks) = 1

\* ------------------------------------------------------------------ embedding claims

\* The embeddings stored under a chunk identifier.
EmbeddingsOf(embs, id) == {e \in embs : e.chunk_id = id}

\* C22: every chunk has at most one embedding and every embedding belongs to
\* a stored chunk; store_embedding leaves the chunk with exactly the vector it
\* was given and the other chunks as they were; an ingest leaves no embedding
\* under the identifier of a chunk it deleted and the embeddings of the chunks
\* it kept as they were.
C22_OneEmbeddingLastWriteWins ==
    [][/\ \A c \in chunks' : Cardinality(EmbeddingsOf(embeddings', c.id)) <= 1
       /\ \A e \in embeddings' : \E c \in chunks' : c.id = e.chunk_id
       /\ \A c \in chunks, v \in Vectors :
              StoreEmbedding(c, v)
              => /\ EmbeddingsOf(embeddings', c.id)
                        = {[chunk_id |-> c.id, vector |-> v]}
                 /\ \A d \in chunks \ {c} :
                        EmbeddingsOf(embeddings', d.id) = EmbeddingsOf(embeddings, d.id)
       /\ \/ /\ \A c \in chunks \ chunks' : EmbeddingsOf(embeddings', c.id) = {}
             /\ \A c \in chunks \cap chunks' :
                    EmbeddingsOf(embeddings', c.id) = EmbeddingsOf(embeddings, c.id)
          \/ \A p \in Paths, fault \in Faults, ai \in Enrichers :
                 ~IngestFile(p, fault, ai)]_vars

\* An item that was enriched when its file held DocB has been ingested again
\* with DocA, and the chunk of the new content has since been given an
\* embedding while another item's chunk holds a different vector.
C22_ReingestedThenEmbedded ==
    \E it \in items, c \in chunks, d \in chunks :
        /\ it.summary # NONE
        /\ it.content_hash = hash_file(DocA)
        /\ c.item_id = it.id
        /\ d.item_id # it.id
        /\ EmbeddingsOf(embeddings, c.id) # {}
        /\ EmbeddingsOf(embeddings, d.id) # {}
        /\ EmbeddingsOf(embeddings, c.id) # {[e EXCEPT !.chunk_id = c.id] :
                                                e \in EmbeddingsOf(embeddings, d.id)}

\* C23: a decoder never panics and returns at most `dimensions` components,
\* whatever bytes the row holds; for a row whose bytes are those that
\* store_embedding wrote, get_embedding returns the vector that was stored.
C23_DecodingToleratesAnyLength ==
    dec.op # "none" =>
        /\ dec.res.kind = "Some"
        /\ Len(dec.res.vector) <= dec.row.dimensions
        /\ (dec.op = "get_embedding" /\ dec.row.intact)
               => dec.res.vector = dec.row.given

\* ------------------------------------------------------------------ search claims

\* The stored embeddings whose similarity to the query is at least the minimum.
Qualifying(embs, q, min_sim) ==
    {e \in embs : cosine_similarity(q, e.vector) >= min_sim}

\* C24: vector_search returns min(limit, k) results for k qualifying
\* embeddings, each a different qualifying embedding with its similarity, in
\* non-increasing order of similarity, none below the minimum and none less
\* similar than a qualifying embedding that was left out; an embedding whose
\* length differs from the query's has similarity 0.
C24_VectorSearchRanking ==
    [][(sr' # sr /\ sr'.op = "vector_search") =>
          LET res == sr'.results
              min_sim == UnwrapOr(sr'.min_similarity, 0)
              found == Qualifying(embeddings, sr'.query, min_sim)
              returned == {res[i].chunk_id : i \in 1..Len(res)}
          IN  /\ Len(res) = Min(sr'.limit, Cardinality(found))
              /\ Cardinality(returned) = Len(res)
              /\ \A i \in 1..Len(res) :
                     /\ res[i].similarity >= min_sim
                     /\ \E e \in found :
                            /\ e.chunk_id = res[i].chunk_id
                            /\ res[i].similarity = cosine_similarity(sr'.query, e.vector)
                            /\ Len(e.vector) # Len(sr'.query) => res[i].similarity = 0
                     /\ \A j \in (i + 1)..Len(res) :
                            res[i].similarity >= res[j].similarity
                     /\ \A e \in found :
                            e.chunk_id \notin returned
                            => res[i].similarity >= cosine_similarity(sr'.query, e.vector)]_vars

\* A vector_search has returned as many results as its limit allowed, of
\* different similarities, and left a stored embedding out.
C24_TruncatedRanking ==
    /\ sr.op = "vector_search"
    /\ sr.limit = 2
    /\ Len(sr.results) = 2
    /\ sr.results[1].similarity > sr.results[2].similarity
    /\ Cardinality(embeddings) = 3

\* The chunk identifiers of a ranking, in its order.
RankedIds(results) == [i \in 1..Len(results) |-> results[i].chunk_id]

\* The lexical rankings of the stored chunks for a term: the chunks that hold
\* the term, best bm25 first, cut at the limit.
LexicalRankings(tbl, term, limit) ==
    FtsOrders({[chunk_id |-> c.id, bm25 |-> bm25(FtsRow(c), term)] :
                  c \in {d \in tbl : Occurrences(d.content, term) > 0}}, limit)

\* C25: hybrid_search with vector_weight = 1.0 returns the chunks of the
\* vector ranking in its order, and with vector_weight = 0.0 the chunks of
\* the lexical ranking in its order (a ranking orders its ties either way).
C25_HybridDegenerates ==
    [][(sr' # sr /\ sr'.op = "hybrid_search") =>
          /\ sr'.vector_weight = 10 =>
                 \E rows \in RowOrders(JoinedRows(embeddings, chunks, items)) :
                     RankedIds(sr'.results)
                         = RankedIds(vector_search(rows, sr'.query, sr'.limit,
                                                   Minimum(1)))
          /\ sr'.vector_weight = 0 =>
                 \E ranking \in LexicalRankings(chunks, sr'.text_query, sr'.limit) :
                     RankedIds(sr'.results) = RankedIds(ranking)]_vars

\* ------------------------------------------------------------------ chunker claims, continued

\* C26: every chunk chunk_text returns has at most chunk_size characters.
C26_ChunksWithinBudget ==
    ck.pc = "done" =>
        \A i \in 1..Len(ck.chunks) : Len(ck.chunks[i].content) <= config.chunk_size

\* The sequence s holds p as a run of consecutive elements.
Contains(s, p) ==
    \E i \in 0..(Len(s) - Len(p)) : SubSeq(s, i + 1, i + Len(p)) = p

\* C27: every segment of a transcript that holds text is contained, trimmed,
\* in a chunk that chunk_transcript returns for it.
C27_NoSegmentLost ==
    tr.pc = "done" =>
        \A i \in 1..Len(tr.segments) :
            Trim(tr.segments[i].text) # <<>>
            => \E k \in 1..Len(tr.chunks) :
                   Contains(tr.chunks[k].content, Trim(tr.segments[i].text))

\* ------------------------------------------------------------------ queue claims, further

\* C28: with one sequential drainer, whenever no process_next call is running
\* no queue entry is in processing status: every entry the call dequeued has
\* reached done or failed (a call is one step of the drainer, so this is every
\* state).
C28_NothingLeftProcessing ==
    \A e \in queue : e.status # "processing"

\* ------------------------------------------------------------------ watch claims

\* The entry the watch loop created for path p waits.
Observed(p) == \E r \in queue : r.source_path = p /\ r.status = "pending"

\* An entry of path p has been processed.
Settled(p) == \E r \in queue : r.source_path = p /\ r.status \in {"done", "failed"}

\* C29: while the watch loop runs, the queue entry created for a changed,
\* supported, non-ignored file eventually leaves pending and reaches done or
\* failed.
C29_WatchedFileIngested == \A p \in TextPaths : Observed(p) ~> Settled(p)

\* The paths of the batches a call took whose events the watcher is to
\* surface: supported, not ignored, no directory.
RECURSIVE Concerned(_)
Concerned(batches) ==
    IF batches = <<>>
    THEN <<>>
    ELSE SelectSeq(Head(batches).events,
                   LAMBDA p : /\ ~is_dir(p)
                              /\ ~should_ignore(p)
                              /\ from_extension(Extension(p)) # NONE)
             \o Concerned(Tail(batches))

\* The paths of the file events in a sequence of WatchEvents.
RECURSIVE SurfacedPaths(_)
SurfacedPaths(events) ==
    IF events = <<>>
    THEN <<>>
    ELSE IF Head(events).kind = "Error"
    THEN SurfacedPaths(Tail(events))
    ELSE <<Head(events).path>> \o SurfacedPaths(Tail(events))

\* C30: a call of poll or next_event surfaces every event of the batches it
\* takes from the receiver that concerns a supported, non-ignored,
\* non-directory path, once each.
C30_NoEventDropped ==
    [][Len(rx') < Len(rx) =>
           SurfacedPaths(wt'.events) =
               Concerned(SubSeq(rx, 1, Len(rx) - Len(rx')))]_vars

\* The same for the calls of poll only.
C30_PollDropsNoEvent ==
    [][(Len(rx') < Len(rx) /\ wt'.op = "poll") =>
           SurfacedPaths(wt'.events) =
               Concerned(SubSeq(rx, 1, Len(rx) - Len(rx')))]_vars

====
